---- MODULE Spec2Model ----
(***************************************************************************)
(* A state-machine model of three parts of RGBDS:                          *)
(*   - the assembler's file stack            (src/src/asm/fstack.c)        *)
(*   - the assembler's grammar actions       (src/unnamed/part_001)        *)
(*   - the linker's output module            (src/unnamed/part_000)        *)
(* Each part has its own specification (SpecFstk, SpecFind, SpecIf,        *)
(* SpecOut, SpecBank); a step of one part leaves the others unchanged.     *)
(***************************************************************************)
EXTENDS Integers, Sequences, FiniteSets, TLC

\* ------------------------------------------------------------------ bounds
MaxRecursion == 2      \* largest configured nMaxRecursionDepth explored
MaxIds       == 3      \* unique ids issued in one run
MaxCount     == 2      \* largest REPT count explored
MaxLine      == 1      \* lexer line numbers 1..MaxLine
MaxIncPaths  == 2      \* MAXINCPATHS, scaled down
MaxPathLen   == 3      \* _MAX_PATH, scaled down
WordMod      == 1073741824   \* modulus of unsigned 32-bit arithmetic, scaled
MaxIfDepth   == 3      \* nested IF levels explored
MaxSkipNest  == 1      \* nested IFs inside a skipped block
MaxSections  == 2      \* sections handed to out_AddSection in one run
MaxAddr      == 1      \* section org in 0..MaxAddr, size in 0..MaxAddr+1
BankBytes    == 2      \* BANK_SIZE (0x4000), scaled down
MaxSyms      == 3      \* symbols of one bank
MaxErrors    == 2      \* errors counted in one run
MaxAlign     == 17     \* largest alignment written in an ALIGN
MaxOffset    == 5      \* small alignment offsets run over -MaxOffset..MaxOffset
MaxAsserts   == 2      \* assertions left to the linker
MaxRsOps     == 3      \* RSRESET, RSSET, RB, RW and RL directives in one run
MaxStrLen    == 3      \* bytes of a string handed to STRSUB
MaxPos       == 5      \* STRSUB positions run over -MaxPos..MaxPos
MaxRootLine  == 2      \* line of the root file at which a dump run starts
MaxNameLen   == 4      \* bytes of a symbol name handed to printSymName
MaxEscapes   == 6      \* items printSymName is followed through writing

\* ------------------------------------------------------- program constants
\* uint32_t arithmetic wraps modulo UINT32_MOD.  TLC's integers are 32-bit
\* signed, so the word is modelled with 30 bits; nothing below depends on the
\* exact width, only on the wrap.
UINT32_MOD == WordMod
UINT32_MAX == WordMod - 1
\* int32_t (the parser's constValue) at the same scale
INT32_MAX == (WordMod \div 2) - 1

\* uint16_t arithmetic (writeBank's offset) wraps modulo UINT16_MOD.
UINT16_MOD == 65536

\* #define BANK_SIZE 0x4000, scaled
BANK_SIZE == BankBytes

STAT_isInclude   == 0
STAT_isMacro     == 1
STAT_isMacroArg  == 2
STAT_isREPTBlock == 3

NULL == "NULL"

\* enum LexerMode, the modes the grammar actions select
LEXER_NORMAL       == "LEXER_NORMAL"
LEXER_SKIP_TO_ELIF == "LEXER_SKIP_TO_ELIF"
LEXER_SKIP_TO_ENDC == "LEXER_SKIP_TO_ENDC"
LEXER_RAW          == "LEXER_RAW"
\* The value of a field of a malloc'ed frame that pushcontext never writes.
\* No path of popcontext reads such a field for the status it was saved with.
Unset == "unset"

VARIABLES
    \* ---- assembler process
    fatal,                      \* fatalerror() was called: the process ended
    diag,                       \* diagnostic raised by the last handler
    \* ---- asm/fstack.c
    pFileStack, nFileStackDepth, nMaxRecursionDepth, pCurrentMacro,
    nCurrentStatus, nMacroCount,
    pCurrentREPTBlock, nCurrentREPTBlockSize, nCurrentREPTBlockCount,
    nCurrentREPTBodyFirstLine, nCurrentREPTBodyLastLine,
    oGeneratedMissingIncludes, oFailedOnMissingInclude,
    \* ---- asm/macro.c and asm/lexer.c state that fstack.c reads and writes
    macroArgs, uniqueID, lineNo,
    \* ---- include path search (asm/fstack.c) and the file system it probes
    IncludePaths, NextIncPath, fs, findResult,
    \* ---- end of input: yywrap() returned 1
    ended,
    \* ---- history (not program state): the contexts now open, innermost
    \*      last, the ids handed out so far, the directories given to
    \*      fstk_AddIncludePath, and the last handler that ran
    ctxHist, issued, configured, lastCall,
    \* ---- conditional assembly: the lexer's IF stack and mode (asm/lexer)
    ifStack, lexerMode, skipNest,
    \* ---- history: per open IF level what the parser saw, and the last line
    ifHist, lastTok,
    \* ---- linker, link/output: the sorted sections and how the process ended
    sections, outStatus,
    \* ---- history: the last call of the output module and its answer
    lastOut,
    \* ---- linker options (link/main) and the overlay file they name
    outputFileName, overlayFileName, is32kMode, disablePadding,
    overlaySize, overlaySeekable,
    \* ---- link/output: the two FILE pointers and what was written
    outputFile, overlayFile, romBytes,
    \* ---- history: the writeBank calls of writeROM, in order
    bankLog,
    \* ---- the symbols of one bank, in the order writeSymBank collects them
    \*      from its sections, and the lines it wrote to symFile
    bankSymbols, symFile,
    \* ---- assembler: the lexer's string expansion switch, where the parser
    \*      stands in the current line, the errors counted, and whether a
    \*      REPT is under way
    expansionEnabled, linePhase, nbErrors, reptActive,
    errorAt,             \* history: the lexer's state at the latest error
    \* ---- assembler: the latest ALIGN (what was written, what align_spec
    \*      made of it)
    alignIn, alignSpec,
    \* ---- assembler: the latest assertion met, and the assertions recorded
    \*      for the linker
    assertIn, assertions,
    \* ---- assembler: _RS, the constants defined by RB/RW/RL, and the
    \*      history of the RS directives (the value last set, the sizes
    \*      allocated since, what each constant should be, the latest
    \*      directive)
    rs, rsSymbols, rsStatus, rsOps, rsSet, rsAlloc, rsExpected, rsLast,
    \* ---- assembler: the operands of a STRSUB and what it produced
    strsubIn, strsubOut,
    \* ---- assembler: what the latest context-stack dump printed
    dumpOut,
    \* ---- link/output: printSymName's name, its ptr (1-based; one past the
    \*      end is the terminating NUL) and what it wrote
    symName, namePtr, printed

fstkVars == <<fatal, diag, pFileStack, nFileStackDepth, nMaxRecursionDepth,
              pCurrentMacro, nCurrentStatus, nMacroCount, pCurrentREPTBlock,
              nCurrentREPTBlockSize, nCurrentREPTBlockCount,
              nCurrentREPTBodyFirstLine, nCurrentREPTBodyLastLine,
              oGeneratedMissingIncludes, oFailedOnMissingInclude,
              macroArgs, uniqueID, lineNo, IncludePaths, NextIncPath, fs,
              findResult, ended, ctxHist, issued, configured, lastCall>>

\* fstkVars without the two variables every assembler handler may set
fstkOnly == <<pFileStack, nFileStackDepth, nMaxRecursionDepth,
              pCurrentMacro, nCurrentStatus, nMacroCount, pCurrentREPTBlock,
              nCurrentREPTBlockSize, nCurrentREPTBlockCount,
              nCurrentREPTBodyFirstLine, nCurrentREPTBodyLastLine,
              oGeneratedMissingIncludes, oFailedOnMissingInclude,
              macroArgs, uniqueID, lineNo, IncludePaths, NextIncPath, fs,
              findResult, ended, ctxHist, issued, configured, lastCall>>

ifVars == <<ifStack, lexerMode, skipNest, ifHist, lastTok>>

outVars == <<sections, outStatus, lastOut>>

optVars == <<outputFileName, overlayFileName, is32kMode, disablePadding,
             overlaySize, overlaySeekable>>
romVars == <<optVars, outputFile, overlayFile, romBytes, bankLog>>

\* The parts that neither the file stack, the conditional rules nor the
\* section lists touch.
symVars == <<bankSymbols, symFile>>
lineVars == <<expansionEnabled, linePhase, nbErrors, reptActive, errorAt>>
dirVars == <<alignIn, alignSpec, assertIn, assertions>>
rsVars == <<rs, rsSymbols, rsStatus, rsOps, rsSet, rsAlloc, rsExpected,
            rsLast>>
\* The parts modelled one function at a time.
strVars == <<strsubIn, strsubOut>>
dumpVars == <<dumpOut>>
printVars == <<symName, namePtr, printed>>
lateVars == <<rsVars, strVars, dumpVars, printVars>>
restVars == <<romVars, symVars, lineVars, dirVars, lateVars>>

\* What a handler of one part leaves alone in the other parts.
notFstk == <<ifVars, outVars, restVars>>
notIf == <<fstkOnly, outVars, restVars>>
notOut == <<fstkVars, ifVars, restVars>>
notRom == <<fstkVars, ifVars, symVars, lineVars, dirVars, lateVars>>
notSym == <<fstkVars, ifVars, romVars, lineVars, dirVars, lateVars>>
notLine == <<fstkOnly, fatal, ifStack, skipNest, ifHist, lastTok, outVars,
             romVars, symVars, dirVars, lateVars>>
notDir == <<fstkOnly, ifVars, outVars, romVars, symVars, expansionEnabled,
            linePhase, reptActive, errorAt, lateVars>>
notRs == <<fstkOnly, ifVars, outVars, romVars, symVars, expansionEnabled,
           linePhase, reptActive, errorAt, dirVars, strVars, dumpVars, printVars>>
notStr == <<fstkOnly, fatal, ifVars, outVars, romVars, symVars,
            expansionEnabled, linePhase, reptActive, errorAt, dirVars,
            rsVars, dumpVars, printVars>>

vars == <<fstkVars, ifVars, outVars, restVars>>

\* ---------------------------------------------------------- input domains
Lines     == 1..MaxLine
\* The struct MacroArgs * of a macro call: one allocation per call, named
\* after the call's number.
NewArgs(n) == <<"args", n>>
\* macro_GetCurrentArgs() before any macro has run
NoArgs == <<NULL, 0>>
Blocks    == {"body1", "body2"}          \* captured REPT bodies (tzNewMacro)
BlockSize(b) == IF b = "body1" THEN 1 ELSE 2   \* ulNewMacroSize of a body
\* What sym_FindSymbol can answer for a macro name.
SymInputs == {"undefined", "notMacro", "mac1", "mac2"}

\* ------------------------------------------------- include path search
\* A path is a sequence of characters.
Slash == "/"
DirInputs  == {<<"a">>, <<"a", Slash>>, <<"b">>, <<"b", "b", Slash>>}
PathInputs == {<<"f">>}

\* fstk_AddIncludePath's pattern: "%s" when s ends with a slash, else "%s/".
WithSlash(s) == IF Len(s) > 0 /\ s[Len(s)] = Slash THEN s ELSE Append(s, Slash)

\* Every full path the search can build from the inputs.
FullPaths == {d \o p : d \in {<<>>} \cup {WithSlash(x) : x \in DirInputs},
                       p \in PathInputs}
FileKinds == {"none", "file", "dir"}

\* stat() succeeds and the entry is not a directory.
isPathValid(pathname) == fs[pathname] = "file"

\* The candidate tried at loop index i: the path itself for i = 0, else
\* IncludePaths[i - 1] followed by the path.
Candidate(i, path) == (IF i = 0 THEN <<>> ELSE IncludePaths[i]) \o path

\* The loop of fstk_FindFile from index i on: the first valid candidate.
RECURSIVE FindFrom(_, _)
FindFrom(i, path) ==
    IF i > NextIncPath THEN [found |-> FALSE, fullPath |-> NULL]
    ELSE IF isPathValid(Candidate(i, path))
         THEN [found |-> TRUE, fullPath |-> Candidate(i, path)]
         ELSE FindFrom(i + 1, path)

FindStart_SkipsCurrentDir == 0 + 1
FindStart == 0

\* fstk_FindFile(path, &fullPath, &size); allocation is taken to succeed.
fstk_FindFile(path) == FindFrom(FindStart, path)

\* ------------------------------------------------------- context stack
\* A push that counts the frame twice.
DepthAfterPush_ByTwo == (nFileStackDepth + 2) % UINT32_MOD
\* ++nFileStackDepth > nMaxRecursionDepth
DepthAfterPush == (nFileStackDepth + 1) % UINT32_MOD
PushExceeds_PostIncrement == nFileStackDepth > nMaxRecursionDepth
PushExceeds == DepthAfterPush > nMaxRecursionDepth

\* The frame pushcontext appends; fields of the other statuses stay unset.
SavedFrame ==
    LET st == nCurrentStatus
        isMac == st \in {STAT_isMacro, STAT_isMacroArg}
        isRept == st = STAT_isREPTBlock
    IN [nLine |-> lineNo,
        nStatus |-> st,
        macroArgs |-> IF isMac \/ isRept THEN macroArgs ELSE Unset,
        pMacro |-> IF isMac THEN pCurrentMacro ELSE Unset,
        pREPTBlock |-> IF isRept THEN pCurrentREPTBlock ELSE Unset,
        nREPTBlockSize |-> IF isRept THEN nCurrentREPTBlockSize ELSE Unset,
        nREPTBlockCount |-> IF isRept THEN nCurrentREPTBlockCount ELSE Unset,
        nREPTBodyFirstLine |-> IF isRept THEN nCurrentREPTBodyFirstLine ELSE Unset,
        nREPTBodyLastLine |-> IF isRept THEN nCurrentREPTBodyLastLine ELSE Unset,
        uniqueID |-> uniqueID]

\* pushcontext(): fatalerror when the limit is exceeded (the caller's step
\* then ends the process), else one more frame at the tail of the list.
\* Allocation is taken to succeed.
pushcontext ==
    /\ nFileStackDepth' = DepthAfterPush
    /\ pFileStack' = IF PushExceeds THEN pFileStack
                     ELSE Append(pFileStack, SavedFrame)

\* macro_SetUniqueID(nMacroCount++)
NextUniqueID_FromDepth == nFileStackDepth
NextUniqueID == nMacroCount
IssueUniqueID ==
    /\ uniqueID' = NextUniqueID
    /\ nMacroCount' = (nMacroCount + 1) % UINT32_MOD
    /\ issued' = Append(issued, NextUniqueID)

CanIssue == nMacroCount < MaxIds

\* history: what the state is when a context is about to be pushed, for the
\* values pushcontext saves
Snapshot ==
    LET isMac == nCurrentStatus \in {STAT_isMacro, STAT_isMacroArg}
        isRept == nCurrentStatus = STAT_isREPTBlock
    IN [depth |-> nFileStackDepth,
        status |-> nCurrentStatus,
        uniqueID |-> uniqueID,
        macroArgs |-> IF isMac \/ isRept THEN macroArgs ELSE Unset,
        pMacro |-> IF isMac THEN pCurrentMacro ELSE Unset,
        rept |-> IF isRept
                 THEN <<pCurrentREPTBlock, nCurrentREPTBlockSize,
                        nCurrentREPTBlockCount, nCurrentREPTBodyFirstLine,
                        nCurrentREPTBodyLastLine>>
                 ELSE <<>>]

\* history: a context opened by the call named kind; for a macro
\* invocation, with the arguments and the symbol in effect before it
Opened(kind, n, id) ==
    [kind |-> kind, n |-> n, done |-> 0, ids |-> <<id>>, before |-> Snapshot,
     args |-> IF kind = "macro" THEN macroArgs ELSE Unset,
     macro |-> IF kind = "macro" THEN pCurrentMacro ELSE Unset]

Front(q) == SubSeq(q, 1, Len(q) - 1)
Last(q) == q[Len(q)]

\* What every fstack handler leaves alone unless it says otherwise.
searchVars == <<IncludePaths, NextIncPath, fs, findResult, configured>>
reptVars == <<pCurrentREPTBlock, nCurrentREPTBlockSize, nCurrentREPTBlockCount,
              nCurrentREPTBodyFirstLine, nCurrentREPTBodyLastLine>>

\* fstk_RunInclude(tzFileName); openOk is whether lexer_OpenFile succeeds.
fstk_RunInclude(tzFileName, openOk) ==
    LET r == fstk_FindFile(tzFileName) IN
    /\ ~fatal /\ ~ended
    /\ UNCHANGED notFstk
    /\ lastCall' = [op |-> "RunInclude", found |-> r.found]
    /\ findResult' = r
    /\ UNCHANGED <<IncludePaths, NextIncPath, fs, configured, reptVars,
                   nMaxRecursionDepth, pCurrentMacro, nMacroCount, macroArgs,
                   uniqueID, issued, oGeneratedMissingIncludes, ended>>
    /\ IF ~r.found
       THEN /\ IF oGeneratedMissingIncludes
               THEN oFailedOnMissingInclude' = TRUE /\ diag' = "none"
               ELSE oFailedOnMissingInclude' = oFailedOnMissingInclude
                    /\ diag' = "error"
            /\ UNCHANGED <<fatal, pFileStack, nFileStackDepth, nCurrentStatus,
                           lineNo, ctxHist>>
       ELSE /\ pushcontext
            /\ UNCHANGED oFailedOnMissingInclude
            /\ IF PushExceeds
               THEN /\ fatal' = TRUE
                    /\ diag' = "fatal"
                    /\ UNCHANGED <<nCurrentStatus, lineNo, ctxHist>>
               ELSE /\ nCurrentStatus' = STAT_isInclude
                    /\ fatal' = ~openOk
                    /\ diag' = IF openOk THEN "none" ELSE "fatal"
                    /\ ctxHist' = IF openOk
                                  THEN Append(ctxHist, Opened("include", 0, uniqueID))
                                  ELSE ctxHist
                    /\ lineNo' = IF openOk THEN 1 ELSE lineNo

\* A test that lets a symbol of another type through.
NotAMacro_UndefinedOnly(sym) == sym = "undefined"
\* sym == NULL, or sym->type != SYM_MACRO
NotAMacro(sym) == sym \in {"undefined", "notMacro"}

\* fstk_RunMacro(s, args); sym is what sym_FindSymbol(s) answers, args is
\* the argument list the parser allocated for this call.
fstk_RunMacro(sym) ==
    /\ ~fatal /\ ~ended
    /\ UNCHANGED notFstk
    /\ lastCall' = [op |-> "RunMacro", sym |-> sym]
    /\ UNCHANGED <<searchVars, reptVars, nMaxRecursionDepth, lineNo,
                   oGeneratedMissingIncludes, oFailedOnMissingInclude, ended>>
    /\ IF NotAMacro(sym)
       THEN /\ diag' = "error"
            /\ UNCHANGED <<fatal, pFileStack, nFileStackDepth, pCurrentMacro,
                           nCurrentStatus, nMacroCount, macroArgs, uniqueID,
                           ctxHist, issued>>
       ELSE /\ CanIssue
            /\ pushcontext
            /\ fatal' = PushExceeds
            /\ IF PushExceeds
               THEN /\ diag' = "fatal"
                    /\ UNCHANGED <<pCurrentMacro, nCurrentStatus, nMacroCount,
                                   macroArgs, uniqueID, ctxHist, issued>>
               ELSE /\ IssueUniqueID
                    /\ macroArgs' = NewArgs(nMacroCount)
                    /\ nCurrentStatus' = STAT_isMacro
                    /\ pCurrentMacro' = sym
                    /\ ctxHist' = Append(ctxHist, Opened("macro", 0, NextUniqueID))
                    /\ diag' = "none"

\* fstk_RunRept(count, nReptLineNo); block is the captured body (tzNewMacro,
\* ulNewMacroSize).
fstk_RunRept(count, nReptLineNo, block) ==
    /\ ~fatal /\ ~ended
    /\ UNCHANGED notFstk
    /\ lastCall' = [op |-> "RunRept", count |-> count]
    /\ UNCHANGED <<searchVars, nMaxRecursionDepth, lineNo, pCurrentMacro,
                   macroArgs, nCurrentREPTBodyLastLine,
                   oGeneratedMissingIncludes, oFailedOnMissingInclude, ended>>
    /\ IF count = 0
       THEN /\ diag' = "none"
            /\ UNCHANGED <<fatal, pFileStack, nFileStackDepth, nCurrentStatus,
                           nMacroCount, uniqueID, ctxHist, issued,
                           pCurrentREPTBlock, nCurrentREPTBlockSize,
                           nCurrentREPTBlockCount, nCurrentREPTBodyFirstLine>>
       ELSE /\ CanIssue
            /\ pushcontext
            /\ fatal' = PushExceeds
            /\ IF PushExceeds
               THEN /\ diag' = "fatal"
                    /\ UNCHANGED <<nCurrentStatus, nMacroCount, uniqueID,
                                   ctxHist, issued, pCurrentREPTBlock,
                                   nCurrentREPTBlockSize, nCurrentREPTBlockCount,
                                   nCurrentREPTBodyFirstLine>>
               ELSE /\ IssueUniqueID
                    /\ nCurrentREPTBlockCount' = count
                    /\ nCurrentStatus' = STAT_isREPTBlock
                    /\ nCurrentREPTBlockSize' = BlockSize(block)
                    /\ pCurrentREPTBlock' = block
                    /\ nCurrentREPTBodyFirstLine' = nReptLineNo + 1
                    /\ ctxHist' = Append(ctxHist, Opened("rept", count, NextUniqueID))
                    /\ diag' = "none"

\* --nCurrentREPTBlockCount
CountAfterDecrement == (nCurrentREPTBlockCount - 1) % UINT32_MOD
ReptContinues_PostDecrement ==
    nCurrentStatus = STAT_isREPTBlock /\ nCurrentREPTBlockCount # 0
ReptContinues == nCurrentStatus = STAT_isREPTBlock /\ CountAfterDecrement # 0

\* The tail of popcontext (lines 144-195): restore the innermost saved frame.
\* The frame's lexerState is never written by pushcontext, so the lexer state
\* installed by lexer_SetState, and with it the line number, is arbitrary.
RestoreFrame(newLine) ==
    LET f == Last(pFileStack)
        isMac == f.nStatus \in {STAT_isMacro, STAT_isMacroArg}
        isRept == f.nStatus = STAT_isREPTBlock
    IN /\ lineNo' = newLine
       /\ macroArgs' = IF isMac \/ isRept THEN f.macroArgs ELSE macroArgs
       /\ pCurrentMacro' = IF isMac THEN f.pMacro ELSE pCurrentMacro
       /\ pCurrentREPTBlock' = IF isRept THEN f.pREPTBlock ELSE pCurrentREPTBlock
       /\ nCurrentREPTBlockSize' =
              IF isRept THEN f.nREPTBlockSize ELSE nCurrentREPTBlockSize
       /\ nCurrentREPTBlockCount' =
              IF isRept THEN f.nREPTBlockCount
              ELSE IF nCurrentStatus = STAT_isREPTBlock THEN CountAfterDecrement
              ELSE nCurrentREPTBlockCount
       /\ nCurrentREPTBodyFirstLine' =
              IF isRept THEN f.nREPTBodyFirstLine ELSE nCurrentREPTBodyFirstLine
       /\ uniqueID' = f.uniqueID
       /\ nCurrentStatus' = f.nStatus
       /\ nFileStackDepth' = (nFileStackDepth - 1) % UINT32_MOD
       /\ pFileStack' = Front(pFileStack)

\* macro_FreeArgs(args); free(args): the arguments popcontext releases
FreedArgs ==
    IF /\ pFileStack # <<>>
       /\ Last(pFileStack).nStatus \in
              {STAT_isMacroArg, STAT_isMacro, STAT_isREPTBlock}
       /\ nCurrentStatus = STAT_isMacro
    THEN <<macroArgs>> ELSE <<>>

\* yywrap() = popcontext(): the end of the current buffer.  pathOk is whether
\* the REPT iteration number fits the file path buffer.
yywrap(pathOk, newLine) ==
    /\ ~fatal /\ ~ended
    /\ UNCHANGED notFstk
    /\ lastCall' = [op |-> "yywrap", iterates |-> ReptContinues,
                    closed |-> IF ~ReptContinues /\ ctxHist # <<>>
                               THEN <<Last(ctxHist)>> ELSE <<>>,
                    freed |-> IF ReptContinues THEN 0 ELSE Len(FreedArgs)]
    /\ UNCHANGED <<searchVars, nMaxRecursionDepth, nCurrentREPTBodyLastLine,
                   oGeneratedMissingIncludes, oFailedOnMissingInclude>>
    /\ IF ReptContinues
       THEN /\ CanIssue
            /\ nCurrentREPTBlockCount' = CountAfterDecrement
            /\ IssueUniqueID
            /\ fatal' = ~pathOk
            /\ diag' = IF pathOk THEN "none" ELSE "fatal"
            /\ ctxHist' = [ctxHist EXCEPT ![Len(ctxHist)] =
                              [@ EXCEPT !.done = @ + 1,
                                         !.ids = Append(@, NextUniqueID)]]
            /\ UNCHANGED <<pFileStack, nFileStackDepth, pCurrentMacro,
                           nCurrentStatus, pCurrentREPTBlock,
                           nCurrentREPTBlockSize, nCurrentREPTBodyFirstLine,
                           macroArgs, lineNo, ended>>
       ELSE IF pFileStack = <<>>
       THEN /\ ended' = TRUE
            /\ nCurrentREPTBlockCount' =
                   IF nCurrentStatus = STAT_isREPTBlock THEN CountAfterDecrement
                   ELSE nCurrentREPTBlockCount
            /\ diag' = "none"
            /\ UNCHANGED <<fatal, pFileStack, nFileStackDepth, pCurrentMacro,
                           nCurrentStatus, nMacroCount, pCurrentREPTBlock,
                           nCurrentREPTBlockSize, nCurrentREPTBodyFirstLine,
                           macroArgs, uniqueID, lineNo, ctxHist, issued>>
       ELSE /\ RestoreFrame(newLine)
            /\ ctxHist' = Front(ctxHist)
            /\ diag' = "none"
            /\ UNCHANGED <<fatal, nMacroCount, issued, ended>>

\* The lexer reads on to the next line of the current buffer.
NextLine ==
    /\ ~fatal /\ ~ended
    /\ UNCHANGED notFstk
    /\ lineNo < MaxLine
    /\ lineNo' = lineNo + 1
    /\ lastCall' = [op |-> "NextLine"]
    /\ diag' = "none"
    /\ UNCHANGED <<fatal, pFileStack, nFileStackDepth, nMaxRecursionDepth,
                   pCurrentMacro, nCurrentStatus, nMacroCount, reptVars,
                   oGeneratedMissingIncludes, oFailedOnMissingInclude,
                   macroArgs, uniqueID, searchVars, ended, ctxHist, issued>>

\* fstk_AddIncludePath(s)
StoredIncludePath(s) == SubSeq(WithSlash(s), 1, MaxPathLen - 1)
fstk_AddIncludePath(s) ==
    /\ ~fatal /\ ~ended
    /\ UNCHANGED notFstk
    /\ lastCall' = [op |-> "AddIncludePath"]
    /\ UNCHANGED <<pFileStack, nFileStackDepth, nMaxRecursionDepth,
                   pCurrentMacro, nCurrentStatus, nMacroCount, reptVars,
                   oGeneratedMissingIncludes, oFailedOnMissingInclude,
                   macroArgs, uniqueID, lineNo, fs, findResult, ended,
                   ctxHist, issued>>
    /\ IF NextIncPath = MaxIncPaths
       THEN /\ fatal' = TRUE /\ diag' = "fatal"
            /\ UNCHANGED <<IncludePaths, NextIncPath, configured>>
       ELSE /\ IncludePaths' = Append(IncludePaths, StoredIncludePath(s))
            /\ configured' = Append(configured, s)
            /\ NextIncPath' = NextIncPath + 1
            /\ fatal' = (Len(WithSlash(s)) >= MaxPathLen)
            /\ diag' = IF fatal' THEN "fatal" ELSE "none"

\* A call of fstk_FindFile on its own (its other callers: INCBIN, main).
FindFileCall(path) ==
    /\ ~fatal /\ ~ended
    /\ UNCHANGED notFstk
    /\ findResult' = fstk_FindFile(path)
    /\ lastCall' = [op |-> "FindFile", path |-> path]
    /\ diag' = "none"
    /\ UNCHANGED <<fatal, pFileStack, nFileStackDepth, nMaxRecursionDepth,
                   pCurrentMacro, nCurrentStatus, nMacroCount, reptVars,
                   oGeneratedMissingIncludes, oFailedOnMissingInclude,
                   macroArgs, uniqueID, lineNo, IncludePaths, NextIncPath, fs,
                   configured, ended, ctxHist, issued>>

out_Init ==
    /\ sections = [t \in {"WRAM0", "VRAM", "ROMX", "ROM0", "HRAM", "WRAMX", "SRAM", "OAM"} |-> <<>>]
    /\ outStatus = "ok"
    /\ lastOut = [op |-> "none", arg |-> <<>>, result |-> <<>>]

\* link/output.cpp before out_WriteFiles, with no option given: FILE
\* *outputFile and FILE *overlayFile are zero-initialised globals.
rom_Files ==
    /\ outputFile = NULL /\ overlayFile = NULL
    /\ romBytes = <<>> /\ bankLog = <<>>

rom_AtRest ==
    /\ rom_Files
    /\ outputFileName = NULL /\ overlayFileName = NULL
    /\ is32kMode = FALSE /\ disablePadding = FALSE
    /\ overlaySize = 0 /\ overlaySeekable = TRUE

sym_AtRest == bankSymbols = <<>> /\ symFile = <<>>

\* The parser at the start of the first line.
line_Init ==
    /\ expansionEnabled = TRUE /\ linePhase = "start"
    /\ nbErrors = 0 /\ reptActive = FALSE
    /\ errorAt = [mode |-> NULL, expansion |-> TRUE, rept |-> FALSE]

\* No directive met yet.
dir_Init ==
    /\ alignIn = [alignment |-> 0, hasOffset |-> FALSE, offset |-> 0]
    /\ alignSpec = [alignment |-> 0, alignOfs |-> 0]
    /\ assertIn = [kind |-> "none", tok |-> "", known |-> TRUE, val |-> 1,
                   msg |-> "", errorsBefore |-> 0, recordedBefore |-> 0]
    /\ assertions = <<>>

\* The names DEF may define here.
RsNames == {"x", "y"}
Undefined == -1

\* _RS is 0 and nothing is defined.
rs_Init ==
    /\ rs = 0 /\ rsSymbols = [n \in RsNames |-> Undefined]
    /\ rsStatus = "ok" /\ rsOps = 0 /\ rsSet = 0 /\ rsAlloc = 0
    /\ rsExpected = [n \in RsNames |-> Undefined]
    /\ rsLast = [op |-> "none", name |-> "", n |-> 0, before |-> 0,
                 fresh |-> FALSE, overflow |-> FALSE]

\* No STRSUB evaluated.
NotCalled == [done |-> FALSE, dest |-> <<>>, warnings |-> {}, errors |-> 0]
str_Init ==
    /\ strsubIn = [src |-> <<>>, pos |-> 1, hasLen |-> TRUE, len |-> 0]
    /\ strsubOut = NotCalled

\* Nothing dumped.
NoDump == [status |-> "none", frames |-> <<>>, current |-> <<>>]
dump_Init == dumpOut = NoDump

print_Init == symName = <<>> /\ namePtr = 1 /\ printed = <<>>

late_Init == rs_Init /\ str_Init /\ dump_Init /\ print_Init

rest_AtRest ==
    rom_AtRest /\ sym_AtRest /\ line_Init /\ dir_Init /\ late_Init

if_Init ==
    /\ ifStack = <<>> /\ ifHist = <<>>
    /\ lexerMode = LEXER_NORMAL /\ skipNest = 0
    /\ lastTok = [tok |-> "none", how |-> "none"]

\* fstk_Init(): the state before the first line is parsed.  uniqueID starts
\* as (uint32_t)-1 in asm/macro.c.
fstk_Init ==
    /\ fatal = FALSE /\ diag = "none" /\ ended = FALSE
    /\ pFileStack = <<>> /\ nFileStackDepth = 0
    /\ nMacroCount = 0 /\ nCurrentStatus = STAT_isInclude
    /\ pCurrentMacro = NULL /\ macroArgs = NoArgs /\ uniqueID = UINT32_MAX
    /\ pCurrentREPTBlock = NULL /\ nCurrentREPTBlockSize = 0
    /\ nCurrentREPTBlockCount = 0 /\ nCurrentREPTBodyFirstLine = 0
    /\ nCurrentREPTBodyLastLine = 0
    /\ oFailedOnMissingInclude = FALSE
    /\ lineNo = 1
    /\ findResult = [found |-> FALSE, fullPath |-> NULL]
    /\ ctxHist = <<>> /\ issued = <<>> /\ lastCall = [op |-> "Init"]

\* A file system with f in the include directory a/ only.
SampleFs == [p \in FullPaths |-> IF p = <<"a", Slash, "f">> THEN "file"
                                 ELSE IF p = <<"b", Slash, "f">> THEN "dir"
                                 ELSE "none"]

EmptyFs == [p \in FullPaths |-> "none"]

\* ---- the file stack at work: -r N, -i a, -MG on or off
FstkInit ==
    /\ if_Init /\ out_Init /\ rest_AtRest
    /\ fstk_Init
    /\ nMaxRecursionDepth = MaxRecursion
    /\ \E cfg \in {<<SampleFs, FALSE>>, <<EmptyFs, FALSE>>, <<EmptyFs, TRUE>>} :
           fs = cfg[1] /\ oGeneratedMissingIncludes = cfg[2]
    /\ IncludePaths = <<WithSlash(<<"a">>)>> /\ NextIncPath = 1
    /\ configured = <<<<"a">>>>

FstkNext ==
    \/ \E p \in PathInputs, ok \in BOOLEAN : fstk_RunInclude(p, ok)
    \/ \E sym \in SymInputs : fstk_RunMacro(sym)
    \/ \E n \in 0..MaxCount, b \in Blocks : fstk_RunRept(n, lineNo, b)
    \/ \E ok \in (IF ReptContinues THEN BOOLEAN ELSE {TRUE}), l \in Lines :
           yywrap(ok, l)


SpecFstk == FstkInit /\ [][FstkNext]_vars

\* ---- the include path search over every file system
FindInit ==
    /\ if_Init /\ out_Init /\ rest_AtRest
    /\ fstk_Init
    /\ nMaxRecursionDepth = 0
    /\ oGeneratedMissingIncludes = FALSE
    /\ IncludePaths = <<>> /\ NextIncPath = 0 /\ configured = <<>>
    /\ fs \in [FullPaths -> FileKinds]

FindNext ==
    \/ \E s \in DirInputs : fstk_AddIncludePath(s)
    \/ \E p \in PathInputs : FindFileCall(p)

SpecFind == FindInit /\ [][FindNext]_vars

\* ------------------------------------------------ conditional assembly
\* The lexer's side (asm/lexer, described in the specification's 4.1 and
\* 4.2): one entry per open IF with the two flags the grammar asks for.

lexer_GetIFDepth(st) == Len(st)
lexer_IncIFDepth(st) ==
    Append(st, [ranIfBlock |-> FALSE, reachedElseBlock |-> FALSE])
lexer_DecIFDepth(st) == Front(st)
lexer_RunIFBlock(st) == [st EXCEPT ![Len(st)].ranIfBlock = TRUE]
lexer_RanIFBlock(st) == st[Len(st)].ranIfBlock
lexer_ReachELSEBlock(st) == [st EXCEPT ![Len(st)].reachedElseBlock = TRUE]
lexer_ReachedELSEBlock(st) == st[Len(st)].reachedElseBlock

\* Values of `const` on an IF or ELIF line (int32_t).
ConstInputs == {-1, 0, 1}

\* if ($2)
CondHolds_PositiveOnly(c) == c > 0
CondHolds(c) == c # 0

\* The decision of the `if` action (lines 404-411).
IfOutcome(c) == IF CondHolds(c) THEN "run" ELSE "skipToElif"

\* The decision of the `elif` action (lines 415-429).
ElifOutcome_IgnoresRan(depth, ran, reachedElse, c) ==
    IF depth = 0 THEN "fatal"
    ELSE IF CondHolds(c) THEN "run"
    ELSE "skipToElif"
ElifOutcome_NoElseCheck(depth, ran, reachedElse, c) ==
    IF depth = 0 THEN "fatal"
    ELSE IF ran THEN "skipToEndc"
    ELSE IF CondHolds(c) THEN "run"
    ELSE "skipToElif"
ElifOutcome(depth, ran, reachedElse, c) ==
    IF depth = 0 THEN "fatal"
    ELSE IF ran THEN (IF reachedElse THEN "fatal" ELSE "skipToEndc")
    ELSE IF CondHolds(c) THEN "run"
    ELSE "skipToElif"

\* The decision of the `else` action (lines 433-446).
ElseOutcome_NoElseCheck(depth, ran, reachedElse) ==
    IF depth = 0 THEN "fatal"
    ELSE IF ran THEN "skipToEndc"
    ELSE "runElse"
ElseOutcome(depth, ran, reachedElse) ==
    IF depth = 0 THEN "fatal"
    ELSE IF ran THEN (IF reachedElse THEN "fatal" ELSE "skipToEndc")
    ELSE "runElse"

\* The effect of an outcome on the IF stack and the lexer mode.
StackAfter(st, outcome) ==
    CASE outcome = "run" -> lexer_RunIFBlock(st)
      [] outcome = "runElse" -> lexer_ReachELSEBlock(lexer_RunIFBlock(st))
      [] OTHER -> st
ModeAfter_StopsAtElif(outcome) ==
    CASE outcome \in {"skipToElif", "skipToEndc"} -> LEXER_SKIP_TO_ELIF
      [] OTHER -> LEXER_NORMAL
ModeAfter(outcome) ==
    CASE outcome = "skipToElif" -> LEXER_SKIP_TO_ELIF
      [] outcome = "skipToEndc" -> LEXER_SKIP_TO_ENDC
      [] OTHER -> LEXER_NORMAL

\* history of one IF level: was an ELSE of this level handed to the parser,
\* and how many of its branch bodies were entered (counted up to 2)
NewLevel == [elseSeen |-> FALSE, bodies |-> 0]
Entered(h) == [h EXCEPT ![Len(h)].bodies = IF @ < 2 THEN @ + 1 ELSE @]
HistAfter(h, outcome) ==
    IF outcome \in {"run", "runElse"} THEN Entered(h) ELSE h

\* The lexer hands the line to the parser: always in NORMAL mode; in a skip
\* mode only the terminator of the skipped block, at the nesting level where
\* the skip began (ENDC, and for SKIP_TO_ELIF also ELIF and ELSE).
Delivered(tok) ==
    \/ lexerMode = LEXER_NORMAL
    \/ /\ skipNest = 0
       /\ \/ tok = "endc"
          \/ lexerMode = LEXER_SKIP_TO_ELIF /\ tok \in {"elif", "else"}

\* A line the lexer skips: nested IF and ENDC are counted, the rest dropped.
SkipLine(tok) ==
    /\ ~Delivered(tok)
    /\ tok = "if" => skipNest < MaxSkipNest
    /\ skipNest' = CASE tok = "if" -> skipNest + 1
                     [] tok = "endc" -> skipNest - 1
                     [] OTHER -> skipNest
    /\ lastTok' = [tok |-> tok, how |-> "skipped"]
    /\ UNCHANGED <<ifStack, lexerMode, ifHist, fatal, diag>>

\* if: T_POP_IF const T_NEWLINE
if_line(c) ==
    /\ ~fatal
    /\ UNCHANGED notIf
    /\ \/ SkipLine("if")
       \/ /\ Delivered("if")
          /\ Len(ifStack) < MaxIfDepth
          /\ LET o == IfOutcome(c) IN
             /\ ifStack' = StackAfter(lexer_IncIFDepth(ifStack), o)
             /\ lexerMode' = ModeAfter(o)
             /\ ifHist' = HistAfter(Append(ifHist, NewLevel), o)
          /\ skipNest' = 0
          /\ lastTok' = [tok |-> "if", how |-> "parsed", c |-> c]
          /\ UNCHANGED <<fatal, diag>>

\* elif: T_POP_ELIF const T_NEWLINE
elif_line(c) ==
    /\ ~fatal
    /\ UNCHANGED notIf
    /\ \/ SkipLine("elif")
       \/ /\ Delivered("elif")
          /\ LET d == lexer_GetIFDepth(ifStack)
                 o == ElifOutcome(d, d > 0 /\ lexer_RanIFBlock(ifStack),
                                  d > 0 /\ lexer_ReachedELSEBlock(ifStack), c)
             IN /\ fatal' = (o = "fatal")
                /\ diag' = IF o = "fatal" THEN "fatal" ELSE diag
                /\ ifStack' = StackAfter(ifStack, o)
                /\ lexerMode' = ModeAfter(o)
                /\ ifHist' = HistAfter(ifHist, o)
          /\ skipNest' = 0
          /\ lastTok' = [tok |-> "elif", how |-> "parsed", c |-> c]

\* else: T_POP_ELSE T_NEWLINE
else_line ==
    /\ ~fatal
    /\ UNCHANGED notIf
    /\ \/ SkipLine("else")
       \/ /\ Delivered("else")
          /\ LET d == lexer_GetIFDepth(ifStack)
                 o == ElseOutcome(d, d > 0 /\ lexer_RanIFBlock(ifStack),
                                  d > 0 /\ lexer_ReachedELSEBlock(ifStack))
             IN /\ fatal' = (o = "fatal")
                /\ diag' = IF o = "fatal" THEN "fatal" ELSE diag
                /\ ifStack' = StackAfter(ifStack, o)
                /\ lexerMode' = ModeAfter(o)
                /\ ifHist' = IF d = 0 THEN ifHist
                             ELSE HistAfter([ifHist EXCEPT ![d].elseSeen = TRUE], o)
          /\ skipNest' = 0
          /\ lastTok' = [tok |-> "else", how |-> "parsed"]

\* endc: T_POP_ENDC; lexer_DecIFDepth is fatal outside an IF construct.
endc_line ==
    /\ ~fatal
    /\ UNCHANGED notIf
    /\ \/ SkipLine("endc")
       \/ /\ Delivered("endc")
          /\ IF lexer_GetIFDepth(ifStack) = 0
             THEN /\ fatal' = TRUE /\ diag' = "fatal"
                  /\ UNCHANGED <<ifStack, ifHist>>
             ELSE /\ ifStack' = lexer_DecIFDepth(ifStack)
                  /\ ifHist' = Front(ifHist)
                  /\ UNCHANGED <<fatal, diag>>
          /\ lexerMode' = LEXER_NORMAL
          /\ skipNest' = 0
          /\ lastTok' = [tok |-> "endc", how |-> "parsed"]

\* Any other line: assembled in NORMAL mode, dropped while skipping.
plain_line ==
    /\ ~fatal
    /\ UNCHANGED notIf
    /\ \/ SkipLine("plain")
       \/ /\ Delivered("plain")
          /\ lastTok' = [tok |-> "plain", how |-> "parsed"]
          /\ UNCHANGED <<ifStack, lexerMode, skipNest, ifHist, fatal, diag>>

\* The other parts, at rest.
fstk_AtRest ==
    /\ fstk_Init
    /\ nMaxRecursionDepth = MaxRecursion
    /\ oGeneratedMissingIncludes = FALSE
    /\ IncludePaths = <<>> /\ NextIncPath = 0 /\ configured = <<>>
    /\ fs = EmptyFs

IfInit == fstk_AtRest /\ if_Init /\ out_Init /\ rest_AtRest

IfNext ==
    \/ \E c \in ConstInputs : if_line(c)
    \/ \E c \in ConstInputs : elif_line(c)
    \/ else_line
    \/ endc_line
    \/ plain_line

SpecIf == IfInit /\ [][IfNext]_vars


\* ------------------------------------------------ linker: link/output
\* enum SectionType, in the order of the maxNbBanks table.
SectionTypes == {"WRAM0", "VRAM", "ROMX", "ROM0", "HRAM", "WRAMX", "SRAM", "OAM"}

\* static const uint32_t maxNbBanks[SECTTYPE_INVALID]
maxNbBanks(type) ==
    CASE type = "WRAM0" -> 1
      [] type = "VRAM"  -> 2
      [] type = "ROMX"  -> UINT32_MAX
      [] type = "ROM0"  -> 1
      [] type = "HRAM"  -> 1
      [] type = "WRAMX" -> 7
      [] type = "SRAM"  -> UINT32_MAX
      [] type = "OAM"   -> 1

\* sectionTypeInfo[type].firstBank (linkdefs): the switchable ROM and work
\* RAM regions number their banks from 1, the others from 0.
firstBank(type) == IF type \in {"ROMX", "WRAMX"} THEN 1 ELSE 0

\* uint32_t targetBank = section->bank - firstBank
targetBankOf(section) == (section.bank - firstBank(section.type)) % UINT32_MOD
\* uint32_t minNbBanks = targetBank + 1
minNbBanksOf(section) == (targetBankOf(section) + 1) % UINT32_MOD

\* if (minNbBanks > maxNbBanks[section->type]) errx(...)
InvalidBankRange(section) == minNbBanksOf(section) > maxNbBanks(section.type)

EmptyBank == [sections |-> <<>>, zeroLenSections |-> <<>>]

\* The deque after `for (i = size(); i < minNbBanks; i++) emplace_back()`.
RECURSIVE GrownTo(_, _)
GrownTo(banks, n) == IF Len(banks) >= n THEN banks
                     ELSE GrownTo(Append(banks, EmptyBank), n)

\* while (pos != end && (*pos)->org < section->org) pos++;  (1-based)
RECURSIVE InsertPos(_, _, _)
InsertPos(list, org, pos) ==
    IF pos <= Len(list) /\ list[pos].org < org
    THEN InsertPos(list, org, pos + 1) ELSE pos

InsertAt(list, pos, x) ==
    SubSeq(list, 1, pos - 1) \o <<x>> \o SubSeq(list, pos, Len(list))

\* An insertion that ignores section->size.
AddedTo_OneList(bankRec, section) ==
    [bankRec EXCEPT !.sections =
        InsertAt(@, InsertPos(@, section.org, 1), section)]
\* ptr->insert(pos, section) into the list chosen by section->size
AddedTo(bankRec, section) ==
    IF section.size # 0
    THEN [bankRec EXCEPT !.sections =
             InsertAt(@, InsertPos(@, section.org, 1), section)]
    ELSE [bankRec EXCEPT !.zeroLenSections =
             InsertAt(@, InsertPos(@, section.org, 1), section)]

UBOutcomes == {"crashed", "corrupted"}

\* out_AddSection(section).  When targetBank + 1 wraps to 0 the range check
\* passes, no bank is created and sections[type][targetBank] indexes past
\* the end of the deque: undefined behaviour, here a crash or a process
\* that goes on with corrupted storage.
out_AddSection(section) ==
    /\ outStatus = "ok"
    /\ UNCHANGED notOut
    /\ lastOut' = [op |-> "AddSection", arg |-> section, result |-> <<>>]
    /\ IF InvalidBankRange(section)
       THEN outStatus' = "fatal" /\ sections' = sections
       ELSE LET grown == GrownTo(sections[section.type], minNbBanksOf(section))
                t == targetBankOf(section)
            IN IF t + 1 > Len(grown)
               THEN outStatus' \in UBOutcomes /\ sections' = sections
               ELSE /\ outStatus' = "ok"
                    /\ sections' = [sections EXCEPT ![section.type] =
                           [grown EXCEPT ![t + 1] = AddedTo(@, section)]]

\* The test on closed intervals, which counts two adjacent sections.
Intersects_Closed(ptr, section) ==
    ptr.org <= section.org + section.size /\ section.org <= ptr.org + ptr.size
\* ptr->org < section->org + section->size && section->org < ptr->org + ptr->size
Intersects(ptr, section) ==
    ptr.org < section.org + section.size /\ section.org < ptr.org + ptr.size

\* The loop of out_OverlappingSection: the first list entry that intersects.
RECURSIVE FirstOverlap(_, _, _)
FirstOverlap(list, section, i) ==
    IF i > Len(list) THEN <<>>
    ELSE IF Intersects(list[i], section) THEN <<list[i]>>
    ELSE FirstOverlap(list, section, i + 1)

\* out_OverlappingSection(section): <<ptr>>, or <<>> for NULL.  The function
\* indexes sections[type][bank] unchecked: it is called for a section whose
\* bank out_AddSection has created.
out_OverlappingSection(section) ==
    FirstOverlap(sections[section.type][targetBankOf(section) + 1].sections,
                 section, 1)

BankExists(section) ==
    /\ ~InvalidBankRange(section)
    /\ targetBankOf(section) + 1 <= Len(sections[section.type])

OverlapCall(section) ==
    /\ outStatus = "ok"
    /\ BankExists(section)
    /\ UNCHANGED notOut
    /\ lastOut' = [op |-> "OverlappingSection", arg |-> section,
                   result |-> out_OverlappingSection(section)]
    /\ UNCHANGED <<sections, outStatus>>

RECURSIVE SumLen(_)
SumLen(S) ==
    IF S = {} THEN 0
    ELSE LET x == CHOOSE y \in S : TRUE
         IN Len(sections[x[1]][x[2]].sections)
            + Len(sections[x[1]][x[2]].zeroLenSections) + SumLen(S \ {x})

\* How many sections the lists hold.
NbAdded ==
    SumLen(UNION {{<<t, b>> : b \in 1..Len(sections[t])} : t \in SectionTypes})

\* ---- sections of two ROM types, every org and size
Section(type, bank, org, size) ==
    [type |-> type, bank |-> bank, org |-> org, size |-> size]
OverlapInputs ==
    {Section(tb[1], tb[2], org, size) :
        tb \in {<<"ROM0", 0>>, <<"ROMX", 1>>, <<"ROMX", 2>>},
        org \in 0..MaxAddr, size \in 0..(MaxAddr + 1)}

\* One more section is registered, up to the bound of the run.
AddSectionCall(section) == NbAdded < MaxSections /\ out_AddSection(section)

OutNext ==
    \/ \E s \in OverlapInputs : AddSectionCall(s)
    \/ \E s \in OverlapInputs : OverlapCall(s)

\* ---- one-byte sections of every type in the banks around each limit
BankInputs == {0, 1, 2, 7, 8}
RangeInputs == {Section(t, b, 0, 1) : t \in SectionTypes, b \in BankInputs}

BankNext ==
    \E s \in RangeInputs : AddSectionCall(s)

\* ------------------------------------------------ linker: the ROM writer
\* sectionTypeInfo[type].startAddr and .size of the two ROM types
\* (linkdefs; link/main doubles the ROM0 window in 32KiB mode).
startAddr(type) == IF type = "ROMX" THEN BANK_SIZE ELSE 0
typeSize(type) == IF type = "ROM0" /\ is32kMode THEN 2 * BANK_SIZE ELSE BANK_SIZE

\* A byte is named after where it comes from.
padValue == [src |-> "pad", at |-> 0]
\* (*section->data)[i]
DataByte(section, i) ==
    [src |-> "section", at |-> section.org + i, type |-> section.type,
     bank |-> section.bank]
\* getc(overlayFile) at file position pos; past the end getc returns EOF,
\* which putc writes as the byte 0xFF.
OverlayByte(pos) ==
    IF pos < overlaySize THEN [src |-> "overlay", at |-> pos]
    ELSE [src |-> "EOF", at |-> 0]

\* putc(overlayFile ? getc(overlayFile) : padValue, outputFile), n times
Fill(n, ovl, pos) ==
    [i \in 1..n |-> IF ovl # NULL THEN OverlayByte(pos + i - 1) ELSE padValue]

SectionData(section) == [i \in 1..section.size |-> DataByte(section, i - 1)]

\* The padding measured from address 0 instead of the bank's base.
GapBefore_NoBase(offset, baseOffset, org) ==
    IF offset < org THEN org - offset ELSE 0
\* while (offset + baseOffset < section->org) offset++: the bytes put
GapBefore(offset, baseOffset, org) ==
    IF offset + baseOffset < org THEN org - baseOffset - offset ELSE 0

\* The for loop of writeBank from entry i of the list on; w holds offset,
\* the overlay position and the bytes put so far.
RECURSIVE WriteSections(_, _, _, _, _)
WriteSections(list, i, baseOffset, ovl, w) ==
    IF i > Len(list) THEN w
    ELSE LET section == list[i]
             gap == GapBefore(w.offset, baseOffset, section.org)
         IN WriteSections(list, i + 1, baseOffset, ovl,
               [offset |-> (w.offset + gap + section.size) % UINT16_MOD,
                pos    |-> IF ovl # NULL THEN w.pos + gap + section.size
                           ELSE w.pos,
                bytes  |-> w.bytes \o Fill(gap, ovl, w.pos)
                                   \o SectionData(section)])

\* if (!disablePadding) while (offset < size)
PadsToSize(noPad, offset, size) == ~noPad /\ offset < size

\* writeBank(bankSections, baseOffset, size) with the overlay at position
\* pos: the bytes it puts and the overlay position it leaves.  A NULL
\* bankSections is the empty list.
writeBank(bankSections, baseOffset, size, ovl, pos, noPad) ==
    LET w == WriteSections(bankSections, 1, baseOffset, ovl,
                           [offset |-> 0, pos |-> pos, bytes |-> <<>>])
        n == IF PadsToSize(noPad, w.offset, size) THEN size - w.offset ELSE 0
    IN [bytes |-> w.bytes \o Fill(n, ovl, w.pos),
        pos   |-> IF ovl # NULL THEN w.pos + n ELSE w.pos]

\* The lower limit taken as one bank.
TooFewBanks_BelowOne(nbOverlayBanks) == nbOverlayBanks < 1
\* if (nbOverlayBanks < 2)
TooFewBanks(nbOverlayBanks) == nbOverlayBanks < 2

\* checkOverlaySize(): what it returns, whether it warned, whether it ended
\* in errx.
Answer(banks, warned, failed) ==
    [banks |-> banks, warned |-> warned, fatal |-> failed]
checkOverlaySize(ovl) ==
    IF ovl = NULL THEN Answer(0, FALSE, FALSE)
    ELSE IF ~overlaySeekable THEN Answer(0, TRUE, FALSE)
    ELSE IF overlaySize % BANK_SIZE # 0 THEN Answer(0, FALSE, TRUE)
    ELSE LET nbOverlayBanks == (overlaySize \div BANK_SIZE) % UINT32_MOD
         IN IF is32kMode /\ nbOverlayBanks # 2 THEN Answer(0, FALSE, TRUE)
            ELSE IF TooFewBanks(nbOverlayBanks) THEN Answer(0, FALSE, TRUE)
            ELSE Answer(nbOverlayBanks, FALSE, FALSE)

\* uint32_t nbRom0Banks = sectionTypeInfo[SECTTYPE_ROM0].size / BANK_SIZE
nbRom0Banks == typeSize("ROM0") \div BANK_SIZE

\* The banks left to cover, computed without discounting the ROM0 banks.
OverlayBanksLeft_NoDiscount(nbOverlayBanks) == nbOverlayBanks
\* nbOverlayBanks - nbRom0Banks, in uint32_t
OverlayBanksLeft(nbOverlayBanks) ==
    (nbOverlayBanks - nbRom0Banks + UINT32_MOD) % UINT32_MOD

\* coverOverlayBanks(nbOverlayBanks): sections[SECTTYPE_ROMX] afterwards
coverOverlayBanks(romx, nbOverlayBanks) ==
    LET nbUncoveredBanks ==
            IF OverlayBanksLeft(nbOverlayBanks) > Len(romx)
            THEN OverlayBanksLeft(nbOverlayBanks) ELSE 0
    IN IF nbUncoveredBanks > Len(romx) THEN GrownTo(romx, nbUncoveredBanks)
       ELSE romx

\* A loop that steps over every other bank.
NextRomxBank_Skip(i) == i + 2
\* for (uint32_t i = 0; i < sections[SECTTYPE_ROMX].size(); i++)
NextRomxBank(i) == i + 1

\* The loop over sections[SECTTYPE_ROMX] from bank i on (1-based).
RECURSIVE WriteRomx(_, _, _, _)
WriteRomx(romx, i, ovl, w) ==
    IF i > Len(romx) THEN w
    ELSE LET b == writeBank(romx[i].sections, startAddr("ROMX"),
                            typeSize("ROMX"), ovl, w.pos, disablePadding)
         IN WriteRomx(romx, NextRomxBank(i), ovl,
               [bytes |-> w.bytes \o b.bytes, pos |-> b.pos,
                log   |-> Append(w.log, [type |-> "ROMX", index |-> i - 1,
                                          bytes |-> b.bytes])])

\* writeROM().  fopen may fail (err); with the overlay pointer set but no
\* overlay name, strcmp reads a null pointer: undefined behaviour.
writeROM(outOpenOk, ovlOpenOk) ==
    /\ outStatus = "ok"
    /\ lastOut.op # "writeROM"
    /\ UNCHANGED <<notRom, optVars>>
    /\ LET out1 == IF outputFileName # NULL /\ outOpenOk THEN "FILE"
                   ELSE IF outputFileName # NULL THEN NULL ELSE outputFile
           outFailed == outputFileName # NULL /\ out1 = NULL
           ovl1 == IF overlayFile # NULL /\ ~ovlOpenOk THEN NULL
                   ELSE overlayFile
           ovlFailed == overlayFile # NULL /\ ovl1 = NULL
           ans == checkOverlaySize(ovl1)
           romx == IF ans.banks > 0
                   THEN coverOverlayBanks(sections["ROMX"], ans.banks)
                   ELSE sections["ROMX"]
           rom0 == writeBank(IF sections["ROM0"] # <<>>
                             THEN sections["ROM0"][1].sections ELSE <<>>,
                             startAddr("ROM0"), typeSize("ROM0"),
                             ovl1, 0, disablePadding)
           all == WriteRomx(romx, 1, ovl1,
                     [bytes |-> rom0.bytes, pos |-> rom0.pos,
                      log |-> <<[type |-> "ROM0", index |-> 0,
                               bytes |-> rom0.bytes]>>])
           Ends(status, out, ovl) ==
               /\ outStatus' = status
               /\ outputFile' = out /\ overlayFile' = ovl
               /\ UNCHANGED <<sections, romBytes, bankLog>>
       IN /\ lastOut' = [op |-> "writeROM",
                         arg |-> [romxBefore |-> Len(sections["ROMX"]),
                                  overlay |-> ovl1,
                                  checked |-> ~outFailed /\ ~ovlFailed
                                      /\ ~(overlayFile # NULL
                                           /\ overlayFileName = NULL)],
                         result |-> ans]
          /\ IF outFailed THEN Ends("fatal", out1, overlayFile)
             ELSE IF overlayFile # NULL /\ overlayFileName = NULL
             THEN \E u \in UBOutcomes : Ends(u, out1, overlayFile)
             ELSE IF ovlFailed \/ ans.fatal THEN Ends("fatal", out1, ovl1)
             ELSE /\ outStatus' = "ok"
                  /\ outputFile' = out1 /\ overlayFile' = ovl1
                  /\ sections' = [sections EXCEPT !["ROMX"] = romx]
                  /\ romBytes' = IF out1 # NULL THEN all.bytes ELSE romBytes
                  /\ bankLog' = IF out1 # NULL THEN all.log ELSE bankLog

\* ---- the sections a placed program hands over: inside the window of
\* ---- their type, ROMX only outside 32KiB mode, and one that is not ROM
SizeInputs == {0, 1, 2}
InWindow(type, bank) ==
    {Section(type, bank, org, size) :
        org \in startAddr(type)..(startAddr(type) + typeSize(type) - 1),
        size \in SizeInputs}
RomInputs ==
    {s \in InWindow("ROM0", 0) \cup
           (IF is32kMode THEN {}
            ELSE InWindow("ROMX", 1) \cup InWindow("ROMX", 2)) :
        s.org + s.size <= startAddr(s.type) + typeSize(s.type)}
    \cup {Section("VRAM", 0, 0, 1)}

\* Sections are registered before the files are written.
RomAddSection(section) == lastOut.op # "writeROM" /\ AddSectionCall(section)

RomNext ==
    \/ \E s \in RomInputs : RomAddSection(s)
    \/ \E o, v \in BOOLEAN : writeROM(o, v)

OutputNames == {NULL, "rom.gb"}
OverlayNames == {NULL, "overlay.gb"}

\* The linker as started from the command line.
RomInit ==
    /\ fstk_AtRest /\ if_Init /\ out_Init /\ rom_Files /\ sym_AtRest
    /\ line_Init /\ dir_Init /\ late_Init
    /\ outputFileName \in OutputNames /\ overlayFileName \in OverlayNames
    /\ is32kMode \in BOOLEAN /\ disablePadding \in BOOLEAN
    /\ overlaySeekable = TRUE
    /\ overlaySize \in IF overlayFileName = NULL THEN {0}
                       ELSE {2 * BANK_SIZE, 3 * BANK_SIZE}
SpecRom == RomInit /\ [][RomNext]_vars

\* writeROM entered with the overlay pointer already holding the open
\* overlay, of every size around the accepted ones.
OverlaySizes == 0..(3 * BANK_SIZE + 1)
OverlayInit ==
    /\ fstk_AtRest /\ if_Init /\ out_Init /\ sym_AtRest /\ line_Init
    /\ dir_Init /\ late_Init
    /\ outputFile = NULL /\ romBytes = <<>> /\ bankLog = <<>>
    /\ outputFileName = "rom.gb" /\ overlayFileName \in OverlayNames
    /\ overlayFile = IF overlayFileName = NULL THEN NULL ELSE "FILE"
    /\ is32kMode \in BOOLEAN /\ disablePadding = FALSE
    /\ overlaySeekable \in BOOLEAN
    /\ overlaySize \in IF overlayFileName = NULL THEN {0} ELSE OverlaySizes
SpecOverlay == OverlayInit /\ [][RomNext]_vars

\* ------------------------------------------------ linker: the sym file
\* A symbol name is the sequence of its characters.
IsLetter(c) == c \in {"P", "Q", "R", "x", "y", "_"}
\* canStartSymName(c)
canStartSymName(c) == IsLetter(c)

\* name.find(".") != std::string::npos
HasDot(name) == \E i \in 1..Len(name) : name[i] = "."
\* s.starts_with(prefix)
starts_with(str, prefix) ==
    Len(prefix) <= Len(str) /\ SubSeq(str, 1, Len(prefix)) = prefix
\* s[i] of a std::string (0-based): s[s.length()] is the terminating NUL
CharAt(str, i) == IF i < Len(str) THEN str[i + 1] ELSE "NUL"

\* compareSymbols(sym1, sym2): -1, 0 or 1
compareSymbols(sym1, sym2) ==
    IF sym1.addr # sym2.addr
    THEN (IF sym1.addr < sym2.addr THEN -1 ELSE 1)
    ELSE LET sym1_local == HasDot(sym1.name)
             sym2_local == HasDot(sym2.name)
         IN IF sym1_local # sym2_local
            THEN IF starts_with(sym2.name, sym1.name)
                    /\ CharAt(sym2.name, Len(sym1.name)) = "."
                 THEN -1
                 ELSE IF starts_with(sym1.name, sym2.name)
                         /\ CharAt(sym1.name, Len(sym2.name)) = "."
                 THEN 1
                 ELSE (IF sym1_local THEN -1 ELSE 1)
            ELSE 0

\* std::stable_sort calls its comparator as a predicate: the int that
\* compareSymbols returns is converted to bool, so -1 and 1 are both true.
comp(sym1, sym2) == compareSymbols(sym1, sym2) # 0

\* The place (0 = front) where an insertion sort that scans from the right
\* leaves val among the sorted elements done: after the rightmost element
\* that val is not "less" than.
RECURSIVE ScanLeft(_, _, _)
ScanLeft(done, val, k) ==
    IF k >= 1 /\ comp(val, done[k]) THEN ScanLeft(done, val, k - 1) ELSE k

\* std::stable_sort leaves the algorithm to the library.  Three are
\* modelled: "insertion" scans from the right; "frontInsertion" first
\* compares with the front element and moves val there when val is "less";
\* "merge" sorts the two halves and merges them.  With a comparator that
\* is a strict weak ordering all three leave the stably sorted sequence.
InsertStep(done, val, impl) ==
    LET k == IF impl = "frontInsertion" /\ done # <<>> /\ comp(val, done[1])
             THEN 0 ELSE ScanLeft(done, val, Len(done))
    IN SubSeq(done, 1, k) \o <<val>> \o SubSeq(done, k + 1, Len(done))

RECURSIVE InsertionSort(_, _, _)
InsertionSort(list, n, impl) ==
    IF n = 0 THEN <<>>
    ELSE InsertStep(InsertionSort(list, n - 1, impl), list[n], impl)

\* Merging two sorted runs: the right element goes first only when it is
\* "less" than the left one.
RECURSIVE Merge(_, _)
Merge(left, right) ==
    IF left = <<>> THEN right
    ELSE IF right = <<>> THEN left
    ELSE IF comp(right[1], left[1])
    THEN <<right[1]>> \o Merge(left, Tail(right))
    ELSE <<left[1]>> \o Merge(Tail(left), right)

RECURSIVE MergeSort(_)
MergeSort(list) ==
    IF Len(list) <= 1 THEN list
    ELSE LET mid == (Len(list) + 1) \div 2
         IN Merge(MergeSort(SubSeq(list, 1, mid)),
                  MergeSort(SubSeq(list, mid + 1, Len(list))))

\* std::stable_sort(RANGE(symList), compareSymbols).  compareSymbols does
\* not meet the requirements of a comparator (undefined behaviour), so the
\* outcome is whatever the algorithm of the library makes of it.
SortImpls == {"insertion", "frontInsertion", "merge"}
stable_sort(list, impl) ==
    IF impl = "merge" THEN MergeSort(list)
    ELSE InsertionSort(list, Len(list), impl)

RECURSIVE Kept(_, _)
Kept(list, n) ==
    IF n = 0 THEN <<>>
    ELSE IF list[n].name # <<>> /\ canStartSymName(list[n].name[1])
    THEN Append(Kept(list, n - 1), list[n])
    ELSE Kept(list, n - 1)

\* writeSymBank(bankSections, type, bank): collect the symbols whose name
\* starts legally, sort them, print one line per symbol.
writeSymBank(type, bank, impl) ==
    /\ outStatus = "ok"
    /\ lastOut.op # "writeSymBank"
    /\ UNCHANGED <<notSym, sections, outStatus, bankSymbols>>
    /\ LET symList == Kept(bankSymbols, Len(bankSymbols))
           sorted == stable_sort(symList, impl)
       IN /\ lastOut' = [op |-> "writeSymBank",
                         arg |-> [symList |-> symList, impl |-> impl],
                         result |-> sorted]
          /\ symFile' = symFile \o
                [i \in 1..Len(sorted) |->
                    [bank |-> bank + firstBank(type),
                     addr |-> sorted[i].addr, name |-> sorted[i].name]]

\* ---- the symbols of a bank: two global labels, a local label of the
\* ---- first, a local label of a third, and a name that is not printed
NameInputs == {<<"P">>, <<"Q">>, <<"P", ".", "x">>, <<"R", ".", "y">>,
               <<"1">>}
SymbolInputs == {[name |-> n, addr |-> a] : n \in NameInputs, a \in 0..MaxAddr}
\* Names are unique in a link.
SymLists ==
    UNION {{q \in [1..n -> SymbolInputs] :
              \A i, j \in 1..n : i # j => q[i].name # q[j].name} :
           n \in 0..MaxSyms}

SymInit ==
    /\ fstk_AtRest /\ if_Init /\ out_Init /\ rom_AtRest /\ line_Init
    /\ dir_Init /\ late_Init
    /\ symFile = <<>>
    /\ bankSymbols \in SymLists
SymNext ==
    \E tb \in {<<"ROM0", 0>>, <<"ROMX", 0>>}, impl \in SortImpls :
        writeSymBank(tb[1], tb[2], impl)
SpecSym == SymInit /\ [][SymNext]_vars

\* ------------------------------------------- parser: lines and recovery
\* The parser reads a line token by token.  linePhase is "start" between
\* lines, "awaitId" after a directive that captures an identifier, "rawArgs"
\* in the arguments of a macro call, "inLine" elsewhere in a line,
\* "recover" after a syntax error and "accepted" after the end of file.
\* "awaitPurgeId" and "purgeArgs" are the positions before and after an
\* identifier of a PURGE list, "awaitDefId" and "defClose" those within
\* DEF( ... ).
InLinePhases == {"start", "awaitId", "rawArgs", "inLine", "awaitPurgeId",
                 "purgeArgs", "awaitDefId", "defClose"}

\* def_id, redef_id, for, macrodef: lexer_ToggleStringExpansion(false)
capture_directive ==
    /\ ~fatal /\ linePhase = "start" /\ lexerMode = LEXER_NORMAL
    /\ expansionEnabled' = FALSE /\ linePhase' = "awaitId"
    /\ UNCHANGED <<notLine, lexerMode, diag, nbErrors, reptActive, errorAt>>

\* ... T_ID: lexer_ToggleStringExpansion(true)
id_token ==
    /\ ~fatal /\ linePhase = "awaitId"
    /\ expansionEnabled' = TRUE /\ linePhase' = "inLine"
    /\ UNCHANGED <<notLine, lexerMode, diag, nbErrors, reptActive, errorAt>>

\* purge: T_POP_PURGE { lexer_ToggleStringExpansion(false); } ...
purge_directive ==
    /\ ~fatal /\ linePhase = "start" /\ lexerMode = LEXER_NORMAL
    /\ expansionEnabled' = FALSE /\ linePhase' = "awaitPurgeId"
    /\ UNCHANGED <<notLine, lexerMode, diag, nbErrors, reptActive, errorAt>>

\* purge_args: scoped_id | purge_args T_COMMA scoped_id
purge_arg ==
    /\ ~fatal /\ linePhase = "awaitPurgeId"
    /\ linePhase' = "purgeArgs"
    /\ UNCHANGED <<notLine, lexerMode, expansionEnabled, diag, nbErrors,
                   reptActive, errorAt>>

purge_comma ==
    /\ ~fatal /\ linePhase = "purgeArgs"
    /\ linePhase' = "awaitPurgeId"
    /\ UNCHANGED <<notLine, lexerMode, expansionEnabled, diag, nbErrors,
                   reptActive, errorAt>>

\* A PURGE that leaves the string expansion switch as it is.
ExpansionAfterPurge_Kept == expansionEnabled
\* purge: ... { ...; lexer_ToggleStringExpansion(true); }
ExpansionAfterPurge == TRUE

\* purge: ... purge_args trailing_comma { sym_Purge of each; ... }
purge_end ==
    /\ ~fatal /\ linePhase = "purgeArgs"
    /\ expansionEnabled' = ExpansionAfterPurge /\ linePhase' = "inLine"
    /\ UNCHANGED <<notLine, lexerMode, diag, nbErrors, reptActive, errorAt>>

\* relocexpr_no_str: T_OP_DEF { lexer_ToggleStringExpansion(false); }
\*                   T_LPAREN scoped_anon_id ...
def_paren ==
    /\ ~fatal /\ linePhase = "inLine" /\ lexerMode = LEXER_NORMAL
    /\ expansionEnabled' = FALSE /\ linePhase' = "awaitDefId"
    /\ UNCHANGED <<notLine, lexerMode, diag, nbErrors, reptActive, errorAt>>

def_paren_id ==
    /\ ~fatal /\ linePhase = "awaitDefId"
    /\ linePhase' = "defClose"
    /\ UNCHANGED <<notLine, lexerMode, expansionEnabled, diag, nbErrors,
                   reptActive, errorAt>>

\* ... T_RPAREN { rpn_Number(...); lexer_ToggleStringExpansion(true); }
def_paren_end ==
    /\ ~fatal /\ linePhase = "defClose"
    /\ expansionEnabled' = TRUE /\ linePhase' = "inLine"
    /\ UNCHANGED <<notLine, lexerMode, diag, nbErrors, reptActive, errorAt>>

\* macro: T_ID { lexer_SetMode(LEXER_RAW); } macroargs
macro_call ==
    /\ ~fatal /\ linePhase = "start" /\ lexerMode = LEXER_NORMAL
    /\ lexerMode' = LEXER_RAW /\ linePhase' = "rawArgs"
    /\ UNCHANGED <<notLine, expansionEnabled, diag, nbErrors, reptActive,
                   errorAt>>

\* Any other token of a line that the grammar accepts.
plain_token ==
    /\ ~fatal /\ linePhase \in {"start", "inLine"}
    /\ lexerMode = LEXER_NORMAL
    /\ linePhase' = "inLine"
    /\ UNCHANGED <<notLine, lexerMode, expansionEnabled, diag, nbErrors,
                   reptActive, errorAt>>

\* rept: T_POP_REPT uconst T_NEWLINE capture_rept endofline, fstk_RunRept
rept_block ==
    /\ ~fatal /\ linePhase = "start" /\ lexerMode = LEXER_NORMAL
    /\ reptActive' = TRUE
    /\ UNCHANGED <<notLine, lexerMode, expansionEnabled, diag, nbErrors,
                   linePhase, errorAt>>

\* A recovery that leaves the string expansion switch as it is.
ExpansionAfterError_Kept == expansionEnabled
\* error { ...; lexer_ToggleStringExpansion(true); }
ExpansionAfterError == TRUE

\* line: error { lexer_SetMode(LEXER_NORMAL);
\*               lexer_ToggleStringExpansion(true); } ...
\* The token read is not one the grammar allows: yyerror reports it, the
\* error token is shifted and the mid-rule action runs.  The token comes
\* from the lexer, so in a skip mode it is one the lexer delivers.
syntax_error ==
    /\ ~fatal /\ linePhase \in InLinePhases
    /\ lexerMode \in {LEXER_NORMAL, LEXER_RAW} \/ skipNest = 0
    /\ nbErrors < MaxErrors
    /\ nbErrors' = nbErrors + 1 /\ diag' = "error"
    /\ lexerMode' = LEXER_NORMAL
    /\ expansionEnabled' = ExpansionAfterError
    /\ linePhase' = "recover"
    /\ errorAt' = [mode |-> lexerMode, expansion |-> expansionEnabled,
                   rept |-> reptActive]
    /\ UNCHANGED <<notLine, reptActive>>

\* Tokens up to the end of the line are discarded.
discard_token ==
    /\ ~fatal /\ linePhase = "recover"
    /\ diag' = "none"
    /\ UNCHANGED <<notLine, lineVars, lexerMode>>

\* fstk_StopRept(): no further iteration of the REPT under way
fstk_StopRept == reptActive' = FALSE

\* endofline: T_NEWLINE | T_EOB.  After an error: { fstk_StopRept();
\* yyerrok; }.  At the end of macro arguments the lexer is back in its
\* normal mode.
endofline ==
    /\ ~fatal /\ linePhase \in {"inLine", "rawArgs", "recover"}
    /\ linePhase' = "start" /\ diag' = "none"
    /\ IF linePhase = "recover" THEN fstk_StopRept ELSE UNCHANGED reptActive
    /\ lexerMode' = IF linePhase = "rawArgs" THEN LEXER_NORMAL ELSE lexerMode
    /\ UNCHANGED <<notLine, expansionEnabled, nbErrors, errorAt>>

\* T_EOF between two lines: asmfile is complete.
end_of_file ==
    /\ ~fatal /\ linePhase = "start"
    /\ linePhase' = "accepted"
    /\ UNCHANGED <<notLine, lexerMode, expansionEnabled, diag, nbErrors,
                   reptActive, errorAt>>

LineInit == fstk_AtRest /\ if_Init /\ out_Init /\ rest_AtRest
LineNext ==
    \/ capture_directive \/ id_token \/ macro_call \/ plain_token
    \/ rept_block \/ syntax_error \/ discard_token \/ endofline
    \/ end_of_file
    \/ purge_directive \/ purge_arg \/ purge_comma \/ purge_end
    \/ def_paren \/ def_paren_id \/ def_paren_end
    \/ linePhase = "start" /\ \E c \in ConstInputs : if_line(c)
    \/ linePhase = "start" /\ \E c \in ConstInputs : elif_line(c)
    \/ linePhase = "start" /\ else_line
    \/ linePhase = "start" /\ endc_line
SpecLine == LineInit /\ [][LineNext]_vars

\* --------------------------------------------------- parser: ALIGN
\* 1 << n
Shl1(n) == 2 ^ n

\* The values of struct AlignmentSpec's fields: uint8_t and uint16_t.
AlignmentSpec(alignment, alignOfs) ==
    [alignment |-> alignment % 256, alignOfs |-> alignOfs % UINT16_MOD]

\* An offset check that lets an offset of the alignment's size through.
OffsetOutOfRange_Loose(a, o) == o <= -Shl1(a) \/ o > Shl1(a)
\* $3 <= -(1 << $1) || $3 >= 1 << $1
OffsetOutOfRange(a, o) == o <= -Shl1(a) \/ o >= Shl1(a)

\* align_spec reports an error for these operands.
AlignError(a, withOfs, o) ==
    \/ a > 16
    \/ withOfs /\ OffsetOutOfRange(a, o)

\* align_spec: uconst | uconst T_COMMA const
align_spec(a, withOfs, o) ==
    IF AlignError(a, withOfs, o) THEN AlignmentSpec(0, 0)
    ELSE IF ~withOfs THEN AlignmentSpec(a, 0)
    ELSE AlignmentSpec(a, IF o < 0 THEN Shl1(a) + o ELSE o)

\* align: T_OP_ALIGN align_spec.  uconst ends the run on a negative
\* constant; otherwise the specification goes to sect_AlignPC.
align(a, withOfs, o) ==
    /\ ~fatal
    /\ alignIn' = [alignment |-> a, hasOffset |-> withOfs, offset |-> o]
    /\ IF a < 0
       THEN /\ fatal' = TRUE /\ diag' = "fatal"
            /\ UNCHANGED <<alignSpec, nbErrors>>
       ELSE /\ AlignError(a, withOfs, o) => nbErrors < MaxErrors
            /\ alignSpec' = align_spec(a, withOfs, o)
            /\ nbErrors' = IF AlignError(a, withOfs, o) THEN nbErrors + 1
                           ELSE nbErrors
            /\ diag' = IF AlignError(a, withOfs, o) THEN "error" ELSE "none"
            /\ UNCHANGED fatal
    /\ UNCHANGED <<notDir, assertIn, assertions>>

AlignInputs == -1..MaxAlign
\* Offsets: small ones, and those around the sizes of the largest alignments.
OffsetInputs ==
    (-MaxOffset..MaxOffset)
    \cup {s * (Shl1(k) + d) : s \in {-1, 1}, k \in {15, 16}, d \in {-1, 0, 1}}

AlignInit == fstk_AtRest /\ if_Init /\ out_Init /\ rest_AtRest
AlignNext ==
    \E a \in AlignInputs :
        \/ align(a, FALSE, 0)
        \/ \E o \in OffsetInputs : align(a, TRUE, o)
SpecAlign == AlignInit /\ [][AlignNext]_vars

\* --------------------------------------------------- parser: assertions
ASSERT_WARN  == "ASSERT_WARN"
ASSERT_ERROR == "ASSERT_ERROR"
ASSERT_FATAL == "ASSERT_FATAL"

\* A reading of FAIL as the fatal type.
assert_type_FailFatal(tok) ==
    CASE tok = ""      -> ASSERT_ERROR
      [] tok = "WARN"  -> ASSERT_WARN
      [] tok = "FAIL"  -> ASSERT_FATAL
      [] tok = "FATAL" -> ASSERT_FATAL
\* assert_type: %empty | T_POP_WARN T_COMMA | T_POP_FAIL T_COMMA
\*            | T_POP_FATAL T_COMMA
assert_type(tok) ==
    CASE tok = ""      -> ASSERT_ERROR
      [] tok = "WARN"  -> ASSERT_WARN
      [] tok = "FAIL"  -> ASSERT_ERROR
      [] tok = "FATAL" -> ASSERT_FATAL

\* failAssert: fatalerror, error or warning(WARNING_ASSERT) by the type
failAssert(type) ==
    CASE type = ASSERT_FATAL ->
            fatal' = TRUE /\ diag' = "fatal" /\ UNCHANGED nbErrors
      [] type = ASSERT_ERROR ->
            nbErrors' = nbErrors + 1 /\ diag' = "error" /\ UNCHANGED fatal
      [] type = ASSERT_WARN ->
            diag' = "warning" /\ UNCHANGED <<fatal, nbErrors>>
\* failAssertMsg: the same with the message in the text printed
failAssertMsg(type, msg) == failAssert(type)

\* out_CreateAssert(type, expr, message, offset)
out_CreateAssert(type, msg) ==
    assertions' = Append(assertions, [type |-> type, message |-> msg])

\* assert: T_POP_ASSERT assert_type relocexpr [T_COMMA string]
\*       | T_POP_STATIC_ASSERT assert_type const [T_COMMA string]
\* isStatic tells the two directives apart; known and val are the
\* expression's isKnown and val, and a STATIC_ASSERT is given a constant.
assert(isStatic, tok, known, val, withMsg, msg) ==
    LET type == assert_type(tok)
        raises == type = ASSERT_ERROR /\ known /\ val = 0
    IN /\ ~fatal
       /\ isStatic => known
       /\ ~withMsg => msg = ""
       /\ raises => nbErrors < MaxErrors
       /\ ~known => Len(assertions) < MaxAsserts
       /\ assertIn' = [kind |-> IF isStatic THEN "STATIC_ASSERT" ELSE "ASSERT",
                       tok |-> tok, known |-> known, val |-> val,
                       msg |-> msg, errorsBefore |-> nbErrors,
                       recordedBefore |-> Len(assertions)]
       /\ IF ~known
          THEN /\ out_CreateAssert(type, msg)
               /\ diag' = "none" /\ UNCHANGED <<fatal, nbErrors>>
          ELSE IF val = 0
          THEN /\ IF withMsg THEN failAssertMsg(type, msg)
                  ELSE failAssert(type)
               /\ UNCHANGED assertions
          ELSE /\ diag' = "none"
               /\ UNCHANGED <<fatal, nbErrors, assertions>>
       /\ UNCHANGED <<notDir, alignIn, alignSpec>>

AssertTokens == {"", "WARN", "FAIL", "FATAL"}
MsgInputs == {"", "m"}

AssertInit == fstk_AtRest /\ if_Init /\ out_Init /\ rest_AtRest
AssertNext ==
    \E isStatic, known, withMsg \in BOOLEAN, tok \in AssertTokens,
       val \in ConstInputs, msg \in MsgInputs :
        assert(isStatic, tok, known, val, withMsg, msg)
SpecAssert == AssertInit /\ [][AssertNext]_vars

\* --------------------------------------------------- parser: _RS
\* uint32_t addition of two words
AddWord(a, b) == IF a >= UINT32_MOD - b THEN a - (UINT32_MOD - b) ELSE a + b

\* sym_AddVar("_RS", value): the variable holds 32 bits
sym_AddVar_RS(value) == rs' = value % UINT32_MOD

\* sym_GetConstantValue("_RS")
sym_GetConstantValue_RS == rs

\* sym_AddEqu(name, value): a constant is defined once
sym_AddEqu(name, value) ==
    IF rsSymbols[name] = Undefined
    THEN /\ rsSymbols' = [rsSymbols EXCEPT ![name] = value]
         /\ diag' = "none" /\ UNCHANGED nbErrors
    ELSE /\ nbErrors' = nbErrors + 1 /\ diag' = "error"
         /\ UNCHANGED rsSymbols

\* rs_uconst: %empty { $$ = 1; } | uconst
rs_uconst(hasN, n) == IF hasN THEN n ELSE 1

\* k * $3 in int32_t: beyond INT32_MAX the multiplication overflows
Overflows(k, n) == n > INT32_MAX \div k

\* An allocation that counts every unit as one byte.
UnitSize_One(kind) == 1
\* def_rb, def_rw, def_rl: $3, 2 * $3, 4 * $3
UnitSize(kind) ==
    CASE kind = "RB" -> 1 [] kind = "RW" -> 2 [] kind = "RL" -> 4

\* The sum of the sizes allocated since _RS was last set, modulo 2^32.
AllocAfter(kind, n) ==
    AddWord(rsAlloc, (UnitSize(kind) * n) % UINT32_MOD)

\* rsreset: T_POP_RSRESET { sym_AddVar("_RS", 0); }
rsreset ==
    /\ ~fatal /\ rsStatus = "ok" /\ rsOps < MaxRsOps
    /\ sym_AddVar_RS(0)
    /\ rsOps' = rsOps + 1 /\ rsSet' = 0 /\ rsAlloc' = 0
    /\ rsLast' = [op |-> "RSRESET", name |-> "", n |-> 0, before |-> rs,
                  fresh |-> FALSE, overflow |-> FALSE]
    /\ diag' = "none"
    /\ UNCHANGED <<notRs, fatal, nbErrors, rsSymbols, rsStatus, rsExpected>>

\* rsset: T_POP_RSSET uconst { sym_AddVar("_RS", $2); }
rsset(v) ==
    /\ ~fatal /\ rsStatus = "ok" /\ rsOps < MaxRsOps
    /\ rsOps' = rsOps + 1
    /\ rsLast' = [op |-> "RSSET", name |-> "", n |-> v, before |-> rs,
                  fresh |-> FALSE, overflow |-> FALSE]
    /\ IF v < 0
       THEN /\ fatal' = TRUE /\ diag' = "fatal"
            /\ UNCHANGED <<rs, rsSet, rsAlloc>>
       ELSE /\ sym_AddVar_RS(v)
            /\ rsSet' = v /\ rsAlloc' = 0
            /\ diag' = "none" /\ UNCHANGED fatal
    /\ UNCHANGED <<notRs, nbErrors, rsSymbols, rsStatus, rsExpected>>

\* def_rb, def_rw, def_rl: def_id T_POP_RB rs_uconst
\*   { sym_AddEqu($1, sym_GetConstantValue("_RS"));
\*     sym_AddVar("_RS", sym_GetConstantValue("_RS") + k * $3); }
\* The product is an int32_t one: when it overflows the behaviour is
\* undefined, and the build either wraps it or stops the program there.
def_rs(kind, name, hasN, n) ==
    LET size == rs_uconst(hasN, n)
        fresh == rsSymbols[name] = Undefined
    IN /\ ~fatal /\ rsStatus = "ok" /\ rsOps < MaxRsOps
       /\ ~fresh => nbErrors < MaxErrors
       /\ rsOps' = rsOps + 1
       /\ rsLast' = [op |-> kind, name |-> name, n |-> size, before |-> rs,
                     fresh |-> fresh,
                     overflow |-> size >= 0 /\ Overflows(UnitSize(kind), size)]
       /\ IF size < 0
          THEN /\ fatal' = TRUE /\ diag' = "fatal"
               /\ UNCHANGED <<rs, rsSymbols, rsStatus, rsAlloc, rsExpected,
                              nbErrors>>
          ELSE /\ sym_AddEqu(name, sym_GetConstantValue_RS)
               /\ rsExpected' =
                     IF fresh
                     THEN [rsExpected EXCEPT
                             ![name] = AddWord(rsSet, rsAlloc)]
                     ELSE rsExpected
               /\ rsAlloc' = AllocAfter(kind, size)
               /\ \/ /\ sym_AddVar_RS(
                            AddWord(sym_GetConstantValue_RS,
                                    (UnitSize(kind) * size) % UINT32_MOD))
                     /\ UNCHANGED rsStatus
                  \/ /\ Overflows(UnitSize(kind), size)
                     /\ rsStatus' = "crashed" /\ UNCHANGED rs
               /\ UNCHANGED fatal
       /\ UNCHANGED <<notRs, rsSet>>

def_rb(name, hasN, n) == def_rs("RB", name, hasN, n)
def_rw(name, hasN, n) == def_rs("RW", name, hasN, n)
def_rl(name, hasN, n) == def_rs("RL", name, hasN, n)

\* Sizes and values written: small ones, and those around the int32_t limit.
RsSizeInputs ==
    {-1, 0, 1, 3, INT32_MAX \div 4 + 1, INT32_MAX \div 2 + 1, INT32_MAX}
RsValueInputs == {-1, 0, 5, INT32_MAX}

RsInit == fstk_AtRest /\ if_Init /\ out_Init /\ rest_AtRest
RsNext ==
    \/ rsreset
    \/ \E v \in RsValueInputs : rsset(v)
    \/ \E name \in RsNames :
         \/ def_rb(name, FALSE, 0) \/ def_rw(name, FALSE, 0)
         \/ def_rl(name, FALSE, 0)
         \/ \E n \in RsSizeInputs :
              \/ def_rb(name, TRUE, n) \/ def_rw(name, TRUE, n)
              \/ def_rl(name, TRUE, n)
SpecRs == RsInit /\ [][RsNext]_vars

\* --------------------------------------------------- parser: STRSUB
\* Bytes by their role in UTF-8: "a" an ASCII byte, "L" the lead byte of a
\* two-byte sequence, "c" a continuation byte, "x" a byte no sequence holds.
Bytes == {"a", "L", "c", "x"}

\* decode(&state, &codep, byte): 0 when a code point is complete, 1 when the
\* byte is rejected, another state while a sequence is under way.
decode(state, byte) ==
    IF state = 0
    THEN CASE byte = "a" -> 0 [] byte = "L" -> 2 [] OTHER -> 1
    ELSE IF byte = "c" THEN 0 ELSE 1

\* strlenUTF8's loop from byte i on
RECURSIVE strlenFrom(_, _, _, _, _)
strlenFrom(src, i, state, len, errs) ==
    IF i > Len(src) THEN [len |-> len, state |-> state, errs |-> errs]
    ELSE LET d == decode(state, src[i])
         IN strlenFrom(src, i + 1, IF d = 1 THEN 0 ELSE d,
                       IF d \in {0, 1} THEN len + 1 ELSE len,
                       IF d = 1 THEN errs + 1 ELSE errs)

\* strlenUTF8: the length, and the errors reported on the way
strlenUTF8(src) ==
    LET r == strlenFrom(src, 1, 0, 0, 0)
    IN [len |-> r.len, errs |-> r.errs + (IF r.state # 0 THEN 1 ELSE 0)]

\* adjustNegativePos
adjustNegativePos(pos, len) ==
    LET p == IF pos < 0 THEN pos + len + 1 ELSE pos
    IN IF p < 1 THEN [pos |-> 1, warned |-> TRUE]
       ELSE [pos |-> p, warned |-> FALSE]

\* strsubUTF8, first loop: advance to the starting position.  srcIndex
\* counts from 1 here.
RECURSIVE Advance(_, _, _, _, _, _)
Advance(src, pos, srcIndex, state, curPos, errs) ==
    IF srcIndex <= Len(src) /\ curPos < pos
    THEN LET d == decode(state, src[srcIndex])
         IN Advance(src, pos, srcIndex + 1, IF d = 1 THEN 0 ELSE d,
                    IF d \in {0, 1} THEN curPos + 1 ELSE curPos,
                    IF d = 1 THEN errs + 1 ELSE errs)
    ELSE [srcIndex |-> srcIndex, state |-> state, curPos |-> curPos,
          errs |-> errs]

\* strsubUTF8, second loop: copy up to len code points.  The destination is
\* as large as the source can be, so its size never stops the loop.
RECURSIVE Copy(_, _, _, _, _, _, _)
Copy(src, len, srcIndex, state, curLen, errs, dest) ==
    IF srcIndex <= Len(src) /\ curLen < len
    THEN LET d == decode(state, src[srcIndex])
         IN Copy(src, len, srcIndex + 1, IF d = 1 THEN 0 ELSE d,
                 IF d \in {0, 1} THEN curLen + 1 ELSE curLen,
                 IF d = 1 THEN errs + 1 ELSE errs,
                 Append(dest, src[srcIndex]))
    ELSE [state |-> state, curLen |-> curLen, errs |-> errs, dest |-> dest]

\* strsubUTF8(dest, destLen, src, pos, len)
strsubUTF8(src, pos, len) ==
    LET a == Advance(src, pos, 1, 0, 1, 0)
        pastEnd == a.srcIndex > Len(src) /\ pos > a.curPos
        c == Copy(src, len, a.srcIndex, a.state, 0, a.errs, <<>>)
    IN [dest |-> c.dest,
        warnings |-> (IF pastEnd THEN {"PositionPastEnd"} ELSE {})
                     \cup (IF c.curLen < len THEN {"LengthTooBig"} ELSE {}),
        errors |-> c.errs + (IF c.state # 0 THEN 1 ELSE 0)]

\* string: T_OP_STRSUB T_LPAREN string T_COMMA const [T_COMMA uconst] T_RPAREN
\* The length must not be negative (uconst).
string_STRSUB ==
    /\ ~strsubOut.done /\ ~fatal
    /\ LET l == strlenUTF8(strsubIn.src)
           adj == adjustNegativePos(strsubIn.pos, l.len)
           len == IF strsubIn.hasLen THEN strsubIn.len
                  ELSE IF adj.pos > l.len THEN 0 ELSE l.len + 1 - adj.pos
           r == strsubUTF8(strsubIn.src, adj.pos, len)
           errs == l.errs + r.errors
           warns == r.warnings
                    \cup (IF adj.warned THEN {"PositionStartsAt1"} ELSE {})
       IN /\ strsubOut' = [done |-> TRUE, dest |-> r.dest,
                           warnings |-> warns, errors |-> errs]
          /\ nbErrors' = nbErrors + errs
          /\ diag' = IF errs > 0 THEN "error"
                     ELSE IF warns # {} THEN "warning" ELSE "none"
    /\ UNCHANGED <<notStr, strsubIn>>

RECURSIVE Strings(_)
Strings(n) ==
    IF n = 0 THEN {<<>>}
    ELSE Strings(n - 1)
         \cup {Append(q, b) : q \in {t \in Strings(n - 1) : Len(t) = n - 1},
                              b \in Bytes}
StrInputs == Strings(MaxStrLen)
PosInputs == -MaxPos..MaxPos
LenInputs == 0..MaxPos

StrInit ==
    /\ fstk_AtRest /\ if_Init /\ out_Init /\ rom_AtRest /\ sym_AtRest
    /\ line_Init /\ dir_Init /\ rs_Init /\ dump_Init /\ print_Init
    /\ strsubOut = NotCalled
    /\ strsubIn \in [src : StrInputs, pos : PosInputs, hasLen : BOOLEAN,
                     len : LenInputs]
    /\ ~strsubIn.hasLen => strsubIn.len = 0
StrNext == string_STRSUB
SpecStr == StrInit /\ [][StrNext]_vars

\* ------------------------------------------------ context stack dump
\* The lexer's file name at nesting depth k of the contexts open now: the
\* kinds of the contexts around it, with the iteration a REPT is in
\* (the "~n" the file path carries).
FileNameAt(k) ==
    [j \in 1..k |-> [kind |-> ctxHist[j].kind, iteration |-> ctxHist[j].done]]

\* lexer_GetFileName()
lexer_GetFileName == FileNameAt(Len(ctxHist))

\* What can be read from a frame's tzFileName, which pushcontext leaves as
\* malloc returned it: the bytes are indeterminate.
Indeterminate == <<[kind |-> "indeterminate", iteration |-> 0]>>
NameOutcomes(k) == {Indeterminate, FileNameAt(k - 1)}

\* A dump that prints the innermost saved frame first.
DumpOrder_Reversed(n) == [i \in 1..n |-> n + 1 - i]
\* while (pLastFile) { ...; pLastFile = pLastFile->next; }
DumpOrder(n) == [i \in 1..n |-> i]

\* fstk_Dump (fstk_DumpToStr prints the same text into a buffer): each
\* saved frame from the head of the list as tzFileName(nLine) " -> ", then
\* the lexer's file name and line.  Reading tzFileName is undefined
\* behaviour: the text holds whatever the bytes are, or the read fails.
fstk_Dump ==
    /\ ~fatal /\ ~ended /\ dumpOut.status = "none"
    /\ LET n == Len(pFileStack)
           order == DumpOrder(n)
       IN \/ \E names \in [1..n -> UNION {NameOutcomes(k) : k \in 1..n}] :
               /\ \A k \in 1..n : names[k] \in NameOutcomes(k)
               /\ dumpOut' =
                     [status |-> "printed",
                      frames |-> [i \in 1..n |->
                                    [name |-> names[order[i]],
                                     line |-> pFileStack[order[i]].nLine,
                                     sep |-> " -> "]],
                      current |-> <<[name |-> lexer_GetFileName,
                                     line |-> lineNo]>>]
          \/ /\ n > 0
             /\ dumpOut' = [NoDump EXCEPT !.status = "crashed"]
    /\ UNCHANGED <<fstkVars, ifVars, outVars, romVars, symVars, lineVars,
                   dirVars, rsVars, strVars, printVars>>

\* The stack at work until a dump is asked for.
Undumped(A) == dumpOut.status = "none" /\ A

DumpInit ==
    /\ if_Init /\ out_Init /\ rest_AtRest
    /\ fatal = FALSE /\ diag = "none" /\ ended = FALSE
    /\ pFileStack = <<>> /\ nFileStackDepth = 0
    /\ nMacroCount = 0 /\ nCurrentStatus = STAT_isInclude
    /\ pCurrentMacro = NULL /\ macroArgs = NoArgs /\ uniqueID = UINT32_MAX
    /\ pCurrentREPTBlock = NULL /\ nCurrentREPTBlockSize = 0
    /\ nCurrentREPTBlockCount = 0 /\ nCurrentREPTBodyFirstLine = 0
    /\ nCurrentREPTBodyLastLine = 0
    /\ oFailedOnMissingInclude = FALSE
    /\ lineNo \in 1..MaxRootLine
    /\ findResult = [found |-> FALSE, fullPath |-> NULL]
    /\ ctxHist = <<>> /\ issued = <<>> /\ lastCall = [op |-> "Init"]
    /\ nMaxRecursionDepth = MaxRecursion
    /\ fs = SampleFs /\ oGeneratedMissingIncludes = FALSE
    /\ IncludePaths = <<WithSlash(<<"a">>)>> /\ NextIncPath = 1
    /\ configured = <<<<"a">>>>

DumpNext ==
    \/ \E p \in PathInputs : Undumped(fstk_RunInclude(p, TRUE))
    \/ Undumped(fstk_RunMacro("mac1"))
    \/ Undumped(fstk_RunRept(2, lineNo, "body1"))
    \/ \E l \in 1..MaxRootLine : Undumped(yywrap(TRUE, l))
    \/ fstk_Dump
SpecDump == DumpInit /\ [][DumpNext]_vars

OutInit == fstk_AtRest /\ if_Init /\ out_Init /\ rest_AtRest
SpecOut == OutInit /\ [][OutNext]_vars
SpecBank == OutInit /\ [][BankNext]_vars

\* ================================================================ claims
\* The step just taken called pushcontext.
PushAttempt ==
    \/ lastCall'.op = "RunInclude" /\ lastCall'.found
    \/ lastCall'.op = "RunMacro" /\ lastCall'.sym \notin {"undefined", "notMacro"}
    \/ lastCall'.op = "RunRept" /\ lastCall'.count > 0

\* C4: in every non-fatal state the number of stacked contexts is at most
\* nMaxRecursionDepth (and nFileStackDepth counts them); a push made when the
\* stack already holds nMaxRecursionDepth frames ends in a fatal error and
\* adds no frame, and a push below the limit adds exactly one frame.
C4_DepthBounded ==
    /\ [](~fatal => /\ Len(pFileStack) <= nMaxRecursionDepth
                    /\ nFileStackDepth = Len(pFileStack))
    /\ [][PushAttempt =>
            IF Len(pFileStack) >= nMaxRecursionDepth
            THEN fatal' /\ diag' = "fatal" /\ pFileStack' = pFileStack
            ELSE Len(pFileStack') = Len(pFileStack) + 1]_vars

\* A macro call refused at the limit, with the stack full.
C4_Witness ==
    /\ fatal /\ lastCall.op = "RunMacro"
    /\ Len(pFileStack) = nMaxRecursionDepth
    /\ nFileStackDepth = nMaxRecursionDepth + 1

\* C5: RunRept(n), n >= 1, pushes one frame and sets the counter to n; while
\* a REPT is current its counter is at least 1 and equals n minus the number
\* of end-of-body events seen; an end-of-body event with the counter above 1
\* keeps the depth and the REPT status and decrements the counter, the one
\* with the counter at 1 pops the frame (it is the n-th); RunRept(0) changes
\* neither the stack, the status, the counter nor the id.
C5_ReptRunsNTimes ==
    /\ [](~fatal /\ nCurrentStatus = STAT_isREPTBlock =>
            /\ nCurrentREPTBlockCount >= 1
            /\ ctxHist # <<>>
            /\ Last(ctxHist).kind = "rept"
            /\ nCurrentREPTBlockCount = Last(ctxHist).n - Last(ctxHist).done)
    /\ [][(lastCall'.op = "RunRept" /\ ~fatal') =>
            IF lastCall'.count >= 1
            THEN /\ Len(pFileStack') = Len(pFileStack) + 1
                 /\ nCurrentStatus' = STAT_isREPTBlock
                 /\ nCurrentREPTBlockCount' = lastCall'.count
            ELSE UNCHANGED <<pFileStack, nFileStackDepth, nCurrentStatus,
                             nCurrentREPTBlockCount, uniqueID, nMacroCount>>]_vars
    /\ [][(lastCall'.op = "yywrap" /\ nCurrentStatus = STAT_isREPTBlock
                                   /\ ~fatal') =>
            IF nCurrentREPTBlockCount > 1
            THEN /\ pFileStack' = pFileStack
                 /\ nCurrentStatus' = STAT_isREPTBlock
                 /\ nCurrentREPTBlockCount' = nCurrentREPTBlockCount - 1
            ELSE /\ Len(pFileStack') = Len(pFileStack) - 1
                 /\ Last(ctxHist).done = Last(ctxHist).n - 1
                 /\ ctxHist' = Front(ctxHist)]_vars

\* A REPT 2 whose frame was popped by its second end-of-body event.
C5_Witness ==
    /\ ~fatal /\ lastCall.op = "yywrap" /\ lastCall.closed # <<>>
    /\ lastCall.closed[1].kind = "rept"
    /\ lastCall.closed[1].n = 2 /\ lastCall.closed[1].done = 1

IsStrictlyIncreasing(q) == \A i, j \in 1..Len(q) : i < j => q[i] < q[j]

\* C6: the ids handed to macro invocations and REPT iterations are pairwise
\* distinct; inside a macro or a REPT (or a file included from one) the
\* current unique id is the id handed to the innermost invocation or
\* iteration; the ids of the iterations of one REPT are strictly increasing.
C6_UniqueIds ==
    /\ \A i, j \in 1..Len(issued) : i # j => issued[i] # issued[j]
    /\ (~fatal /\ ctxHist # <<>>) =>
          /\ uniqueID = Last(Last(ctxHist).ids)
          /\ Last(ctxHist).kind # "include" => \E i \in 1..Len(issued) :
                                                    issued[i] = uniqueID
    /\ \A k \in 1..Len(ctxHist) :
          /\ IsStrictlyIncreasing(ctxHist[k].ids)
          /\ ctxHist[k].kind # "include" =>
                \A m \in 1..Len(ctxHist) : m # k /\ ctxHist[m].kind # "include" =>
                    \A a \in 1..Len(ctxHist[k].ids), b \in 1..Len(ctxHist[m].ids) :
                        ctxHist[k].ids[a] # ctxHist[m].ids[b]

\* The second iteration of a REPT that called a macro in its first one.
C6_Witness ==
    /\ ~fatal /\ ctxHist # <<>>
    /\ Last(ctxHist).kind = "rept"
    /\ Last(ctxHist).ids = <<0, 2>>
    /\ uniqueID = 2

\* The candidate the search is specified to try at position k: the path
\* itself, then the k-th configured directory followed by the path.
SpecCandidate(k, path) ==
    IF k = 0 THEN path
    ELSE (IF Last(configured[k]) = Slash THEN configured[k]
          ELSE configured[k] \o <<Slash>>) \o path

\* C7: fstk_FindFile tries the path as given, then each configured include
\* directory in configuration order, and answers the first candidate that is
\* an existing non-directory; it reports failure when there is none.
C7_FindFileOrder ==
    (~fatal /\ lastCall.op = "FindFile") =>
        LET path == lastCall.path
            valid == {k \in 0..Len(configured) : fs[SpecCandidate(k, path)] = "file"}
        IN IF valid = {}
           THEN ~findResult.found
           ELSE /\ findResult.found
                /\ \E k \in valid :
                      /\ \A m \in valid : k <= m
                      /\ findResult.fullPath = SpecCandidate(k, path)

\* The file is a directory in the first include path, exists in the second
\* and also in the current directory: the current directory wins.
C7_Witness ==
    /\ ~fatal /\ lastCall.op = "FindFile" /\ findResult.found
    /\ Len(configured) = 2
    /\ findResult.fullPath = lastCall.path
    /\ fs[SpecCandidate(1, lastCall.path)] = "dir"
    /\ fs[SpecCandidate(2, lastCall.path)] = "file"

\* The first include path holds a directory of that name, the second the file.
C7_WitnessSecondPath ==
    /\ ~fatal /\ lastCall.op = "FindFile" /\ findResult.found
    /\ Len(configured) = 2
    /\ fs[lastCall.path] = "none"
    /\ fs[SpecCandidate(1, lastCall.path)] = "dir"
    /\ findResult.fullPath = SpecCandidate(2, lastCall.path)

\* The line just read was handed to the parser as tok.
Parsed(tok) == lastTok'.tok = tok /\ lastTok'.how = "parsed"
TopRan(st) == st # <<>> /\ st[Len(st)].ranIfBlock

\* C1: an IF line handed to the parser opens one more IF level; with a
\* non-zero condition the lexer stays in NORMAL mode inside a level marked as
\* run, so the block is assembled; with a zero condition nothing is run: the
\* lexer goes to SKIP_TO_ELIF at nesting 0 and the level is not marked as run.
\* Lines are assembled only in NORMAL mode, where every open level has run.
C1_IfOpensLevel ==
    /\ [][Parsed("if") =>
            /\ Len(ifStack') = Len(ifStack) + 1
            /\ SubSeq(ifStack', 1, Len(ifStack)) = ifStack
            /\ ~fatal'
            /\ IF lastTok'.c # 0
               THEN /\ lexerMode' = LEXER_NORMAL
                    /\ TopRan(ifStack')
                    /\ Last(ifHist').bodies = 1
               ELSE /\ lexerMode' = LEXER_SKIP_TO_ELIF
                    /\ skipNest' = 0
                    /\ ~TopRan(ifStack')
                    /\ Last(ifHist').bodies = 0]_vars
    /\ [][Parsed("plain") =>
            /\ lexerMode = LEXER_NORMAL
            /\ \A k \in 1..Len(ifStack) : ifStack[k].ranIfBlock]_vars
    /\ [](lexerMode = LEXER_NORMAL /\ ~fatal =>
            \A k \in 1..Len(ifStack) : ifStack[k].ranIfBlock)

\* IF with a negative (non-zero) condition inside a running branch.
C1_Witness ==
    /\ lastTok.tok = "if" /\ lastTok.how = "parsed" /\ lastTok.c = -1
    /\ Len(ifStack) = 2 /\ lexerMode = LEXER_NORMAL

\* IF 0: the lexer is skipping and the new level has not run.
C1_WitnessSkip ==
    /\ lastTok.tok = "if" /\ lastTok.how = "parsed" /\ lastTok.c = 0
    /\ lexerMode = LEXER_SKIP_TO_ELIF /\ ~TopRan(ifStack)

\* C2: an ELIF handed to the parser inside an IF: if no branch of the level
\* has run it acts as IF does (non-zero: the block runs; zero: skip to the
\* next ELIF/ELSE/ENDC); if a branch has run and no ELSE of the level was
\* seen, the lexer skips to ENDC and no further body runs; after the ELSE of
\* the level it is a fatal error.  The depth never changes.
C2_Elif ==
    [][(Parsed("elif") /\ ifStack # <<>>) =>
          /\ Len(ifStack') = Len(ifStack)
          /\ IF Last(ifHist).elseSeen
             THEN fatal' /\ ifStack' = ifStack
             ELSE /\ ~fatal'
                  /\ IF Last(ifHist).bodies = 0
                     THEN IF lastTok'.c # 0
                          THEN /\ lexerMode' = LEXER_NORMAL
                               /\ TopRan(ifStack')
                               /\ Last(ifHist').bodies = 1
                          ELSE /\ lexerMode' = LEXER_SKIP_TO_ELIF
                               /\ skipNest' = 0
                               /\ ~TopRan(ifStack')
                     ELSE /\ lexerMode' = LEXER_SKIP_TO_ENDC
                          /\ skipNest' = 0
                          /\ ifStack' = ifStack
                          /\ ifHist' = ifHist]_vars

\* ELIF after the ELSE of its level: fatal.
C2_Witness ==
    /\ fatal /\ lastTok.tok = "elif" /\ lastTok.how = "parsed"
    /\ ifStack # <<>> /\ Last(ifHist).elseSeen

\* ELIF with a true condition after a taken branch: skipping to ENDC.
C2_WitnessSkip ==
    /\ ~fatal /\ lastTok.tok = "elif" /\ lastTok.how = "parsed"
    /\ lastTok.c = 1 /\ lexerMode = LEXER_SKIP_TO_ENDC

HalfOpen(x) == {a \in 0..(2 * MaxAddr + 2) : x.org <= a /\ a < x.org + x.size}

Flatten(t) ==
    UNION {{sections[t][b].sections[i] : i \in 1..Len(sections[t][b].sections)}
           \cup {sections[t][b].zeroLenSections[i] :
                    i \in 1..Len(sections[t][b].zeroLenSections)} :
           b \in 1..Len(sections[t])}

\* Every section out_AddSection has stored, whatever list it went to.
AllAdded == UNION {Flatten(t) : t \in SectionTypes}

\* The already-added non-zero-size sections of the type and bank of s whose
\* interval shares an address with that of s.
Overlappers(s) ==
    {p \in AllAdded : /\ p.type = s.type /\ p.bank = s.bank /\ p.size # 0
                      /\ HalfOpen(p) \cap HalfOpen(s) # {}}

C8_WitnessAdjacent ==
    /\ lastOut.op = "OverlappingSection" /\ lastOut.arg.size # 0
    /\ lastOut.result = <<>>
    /\ \E p \in AllAdded : /\ p.type = lastOut.arg.type
                           /\ p.bank = lastOut.arg.bank /\ p.size # 0
                           /\ p.org + p.size = lastOut.arg.org

\* C9: zero-size sections never overlap anything: out_OverlappingSection
\* never returns a zero-size section, and called on a zero-size section it
\* returns NULL at every address, also strictly inside an added section.
C9_ZeroSizeExempt ==
    lastOut.op = "OverlappingSection" =>
        /\ lastOut.result # <<>> => lastOut.result[1].size # 0
        /\ lastOut.arg.size = 0 => lastOut.result = <<>>

\* The half of C9 the code keeps: a zero-size section is never returned,
\* although one of the queried type and bank lies inside the queried range.
C9_NeverReturnsZeroSize ==
    lastOut.op = "OverlappingSection" =>
        (lastOut.result # <<>> => lastOut.result[1].size # 0)

\* A zero-size query strictly inside an added section comes back with it.
C9_Witness ==
    /\ lastOut.op = "OverlappingSection"
    /\ lastOut.arg.size = 0
    /\ lastOut.result # <<>>
    /\ lastOut.result[1].org < lastOut.arg.org
    /\ lastOut.arg.org < lastOut.result[1].org + lastOut.result[1].size

\* ---------------------------------------------------------------- C10
\* The legal banks of a type: firstBank .. firstBank + maxNbBanks - 1.
LegalBank(section) ==
    /\ section.bank >= firstBank(section.type)
    /\ section.bank - firstBank(section.type) < maxNbBanks(section.type)

AddStep == lastOut'.op = "AddSection" /\ outStatus = "ok"

\* C10: out_AddSection accepts a section only if its bank is legal for its
\* type (1 bank for ROM0, WRAM0, HRAM, OAM; 2 for VRAM; 7 for WRAMX; no
\* limit for ROMX and SRAM); for any other bank, also one below firstBank,
\* it ends with the fatal invalid-bank-range error and adds nothing.
C10_BankRangeEnforced ==
    [][AddStep =>
         IF LegalBank(lastOut'.arg)
         THEN outStatus' = "ok" /\ lastOut'.arg \in AllAdded'
         ELSE outStatus' = "fatal" /\ sections' = sections]_vars

\* What the code does keep: a legal bank is accepted, and a bank at or
\* above firstBank + maxNbBanks is the fatal error and adds nothing.
C10_RangeFromFirstBank ==
    [][(AddStep /\ lastOut'.arg.bank >= firstBank(lastOut'.arg.type)) =>
         IF LegalBank(lastOut'.arg)
         THEN outStatus' = "ok" /\ lastOut'.arg \in AllAdded'
         ELSE outStatus' = "fatal" /\ sections' = sections]_vars

\* A section of bank firstBank - 1 went past the range check.
C10_Witness ==
    /\ lastOut.op = "AddSection"
    /\ lastOut.arg.bank < firstBank(lastOut.arg.type)
    /\ outStatus # "fatal"

\* A WRAMX section of bank 8, one past the seven banks, was refused.
C10_WitnessFatal ==
    /\ lastOut.op = "AddSection" /\ lastOut.arg.type = "WRAMX"
    /\ lastOut.arg.bank = 8 /\ outStatus = "fatal"


\* ---------------------------------------------------------------- C11
\* The non-zero sections of the bank a writeBank call was about.
BankList(e) ==
    IF e.index + 1 <= Len(sections[e.type])
    THEN sections[e.type][e.index + 1].sections ELSE <<>>

Covers(s, a) == s.org <= a /\ a < s.org + s.size

\* Ascending org, pairwise disjoint, inside the window of the type.
WellPlaced(list, type) ==
    /\ \A i, j \in 1..Len(list) :
          i < j => list[i].org + list[i].size <= list[j].org
    /\ \A i \in 1..Len(list) :
          /\ startAddr(type) <= list[i].org
          /\ list[i].org + list[i].size <= startAddr(type) + typeSize(type)

\* The byte the ROM is to hold at address a of a bank when no overlay is used.
ExpectedByte(list, a) ==
    IF \E i \in 1..Len(list) : Covers(list[i], a)
    THEN LET i == CHOOSE i \in 1..Len(list) : Covers(list[i], a)
         IN DataByte(list[i], a - list[i].org)
    ELSE padValue

RomWritten == lastOut.op = "writeROM" /\ outStatus = "ok" /\ outputFile # NULL

\* C11: with padding enabled and no overlay, writeBank emits exactly `size`
\* bytes for a bank whose non-zero sections are in ascending org, pairwise
\* disjoint and inside the window: byte k is the data byte of the section
\* covering baseOffset + k, and the pad byte where no section covers it.
C11_BankBytes ==
    (RomWritten /\ ~disablePadding /\ overlayFile = NULL) =>
        \A n \in 1..Len(bankLog) :
            LET e == bankLog[n]
            IN WellPlaced(BankList(e), e.type) =>
                 /\ Len(e.bytes) = typeSize(e.type)
                 /\ \A k \in 0..(typeSize(e.type) - 1) :
                       e.bytes[k + 1] =
                           ExpectedByte(BankList(e), startAddr(e.type) + k)

\* A ROMX bank was written whose section starts after the base of the
\* bank, so that pad bytes precede it.
C11_Witness ==
    /\ RomWritten /\ ~disablePadding /\ overlayFile = NULL
    /\ \E n \in 1..Len(bankLog) :
          /\ bankLog[n].type = "ROMX"
          /\ WellPlaced(BankList(bankLog[n]), "ROMX")
          /\ Len(BankList(bankLog[n])) >= 1
          /\ BankList(bankLog[n])[1].org > startAddr("ROMX")

\* A ROM0 bank of the 32KiB window was written with pad bytes before,
\* between and after its two sections.
C11_WitnessGaps ==
    /\ RomWritten /\ ~disablePadding /\ overlayFile = NULL
    /\ WellPlaced(BankList(bankLog[1]), "ROM0")
    /\ Len(BankList(bankLog[1])) = 2
    /\ bankLog[1].bytes[1] = padValue
    /\ \E k \in 2..(Len(bankLog[1].bytes) - 1) :
          /\ bankLog[1].bytes[k] = padValue
          /\ bankLog[1].bytes[k - 1] # padValue
          /\ bankLog[1].bytes[k + 1] # padValue


\* ---------------------------------------------------------------- C12
\* The writeBank call that wrote file offset k, when every bank is written
\* in full: ROM0 first, then the ROMX banks.
EntryAt(k) ==
    IF k < typeSize("ROM0") THEN 1
    ELSE 2 + ((k - typeSize("ROM0")) \div typeSize("ROMX"))

\* The address in its bank's window that file offset k holds.
AddressAt(k) ==
    IF k < typeSize("ROM0") THEN startAddr("ROM0") + k
    ELSE startAddr("ROMX") + ((k - typeSize("ROM0")) % typeSize("ROMX"))

\* An overlay that the size rules accept.
OverlayAccepted ==
    /\ overlayFileName # NULL /\ overlaySeekable
    /\ overlaySize % BANK_SIZE = 0
    /\ overlaySize \div BANK_SIZE >= 2
    /\ is32kMode => overlaySize \div BANK_SIZE = 2

AllWellPlaced ==
    \A n \in 1..Len(bankLog) : WellPlaced(BankList(bankLog[n]), bankLog[n].type)

\* C12: when an overlay is given, the output byte at file offset k is the
\* section byte when a section covers that offset and otherwise the overlay
\* byte at the same offset k; with a 0x8000-byte overlay in 32KiB mode the
\* output is exactly 0x8000 bytes.  (Stated for padding enabled and
\* well-placed sections.)
C12_OverlayBytes ==
    (RomWritten /\ OverlayAccepted /\ ~disablePadding /\ AllWellPlaced) =>
        /\ Len(romBytes) >= overlaySize
        /\ \A k \in 0..(overlaySize - 1) :
              k < Len(romBytes) =>
                 LET list == BankList(bankLog[EntryAt(k)])
                 IN romBytes[k + 1] =
                       IF \E i \in 1..Len(list) : Covers(list[i], AddressAt(k))
                       THEN ExpectedByte(list, AddressAt(k))
                       ELSE [src |-> "overlay", at |-> k]
        /\ is32kMode => Len(romBytes) = 2 * BANK_SIZE

\* The ROM was written with an accepted overlay configured, and it holds a
\* pad byte where the overlay's byte belongs.
C12_Witness ==
    /\ RomWritten /\ OverlayAccepted /\ ~disablePadding /\ AllWellPlaced
    /\ overlayFile = NULL
    /\ \E k \in 1..Len(romBytes) : romBytes[k] = padValue


\* ---------------------------------------------------------------- C13
\* writeROM got as far as its call of checkOverlaySize.
OverlayChecked == lastOut.op = "writeROM" /\ lastOut.arg.checked

\* The sizes the rules refuse.
BadOverlaySize ==
    \/ overlaySize % BANK_SIZE # 0
    \/ overlaySize \div BANK_SIZE < 2
    \/ is32kMode /\ overlaySize \div BANK_SIZE # 2

C13_WitnessAccepted ==
    /\ OverlayChecked /\ lastOut.arg.overlay # NULL /\ overlaySeekable
    /\ ~is32kMode /\ lastOut.result.banks = 3 /\ outStatus = "ok"

\* An overlay of a refused size went through because it is not seekable.
C13_WitnessNotSeekable ==
    /\ OverlayChecked /\ lastOut.arg.overlay # NULL /\ ~overlaySeekable
    /\ BadOverlaySize /\ outStatus = "ok" /\ lastOut.result.warned


\* ---------------------------------------------------------------- C14
Max(a, b) == IF a >= b THEN a ELSE b

\* The step of writeROM that called coverOverlayBanks(n): checkOverlaySize
\* accepted an overlay of n banks.
CoverStep ==
    /\ lastOut'.op = "writeROM" /\ lastOut'.arg.checked
    /\ outStatus' = "ok" /\ lastOut'.result.banks > 0

C14_WitnessKept ==
    /\ OverlayChecked /\ outStatus = "ok" /\ lastOut.result.banks = 2
    /\ lastOut.arg.romxBefore = 2 /\ Len(sections["ROMX"]) = 2


\* ---------------------------------------------------------------- C15
RECURSIVE Concat(_, _)
Concat(log, n) == IF n = 0 THEN <<>> ELSE Concat(log, n - 1) \o log[n].bytes

\* C15: writeROM writes the ROM0 bank first and then every ROMX bank once,
\* in ascending bank index; the bytes of the ROM are those of these calls
\* and no section of another type contributes; with no output file
\* configured nothing is written.
C15_RomOrder ==
    (lastOut.op = "writeROM" /\ outStatus = "ok") =>
        IF outputFileName = NULL
        THEN romBytes = <<>> /\ bankLog = <<>> /\ outputFile = NULL
        ELSE /\ Len(bankLog) = 1 + Len(sections["ROMX"])
             /\ bankLog[1].type = "ROM0" /\ bankLog[1].index = 0
             /\ \A n \in 2..Len(bankLog) :
                   bankLog[n].type = "ROMX" /\ bankLog[n].index = n - 2
             /\ romBytes = Concat(bankLog, Len(bankLog))
             /\ \A k \in 1..Len(romBytes) :
                   romBytes[k].src = "section" =>
                      romBytes[k].type \in {"ROM0", "ROMX"}
             /\ \A s \in AllAdded :
                   (s.type \in {"ROM0", "ROMX"} /\ s.size # 0) =>
                      \E k \in 1..Len(romBytes) : romBytes[k] = DataByte(s, 0)

\* A ROM of ROM0 and two ROMX banks was written while a VRAM section was
\* registered too.
C15_Witness ==
    /\ lastOut.op = "writeROM" /\ outStatus = "ok" /\ outputFile # NULL
    /\ Len(bankLog) = 3
    /\ \E s \in AllAdded : s.type = "VRAM"

\* writeROM ran with sections registered and no output file configured.
C15_WitnessNoOutput ==
    /\ lastOut.op = "writeROM" /\ outStatus = "ok" /\ outputFileName = NULL
    /\ \E s \in AllAdded : s.type = "ROM0" /\ s.size # 0


\* ---------------------------------------------------------------- C16
SymWritten == lastOut.op = "writeSymBank"

\* child is a local label of the label parent: parent's name, a dot, more.
IsLocalOf(child, parent) ==
    /\ ~HasDot(parent.name) /\ HasDot(child.name)
    /\ starts_with(child.name, parent.name)
    /\ CharAt(child.name, Len(parent.name)) = "."

\* Where a symbol stood in the list as collected.
Collected(sym) ==
    CHOOSE i \in 1..Len(lastOut.arg.symList) : lastOut.arg.symList[i] = sym

\* C16: within a bank the sym file lists symbols in non-decreasing address
\* order; at the same address a parent label comes before its own local
\* labels and a local label before an unrelated global label; symbols the
\* ordering does not distinguish keep their collection order.
C16_SymOrder ==
    SymWritten =>
        \A i, j \in 1..Len(lastOut.result) :
            LET a == lastOut.result[i]
                b == lastOut.result[j]
            IN i < j =>
                 /\ a.addr <= b.addr
                 /\ a.addr = b.addr =>
                      /\ ~IsLocalOf(a, b)
                      /\ (HasDot(b.name) /\ ~HasDot(a.name)) => IsLocalOf(b, a)
                      /\ (HasDot(a.name) = HasDot(b.name))
                            => Collected(a) < Collected(b)

\* The sym file of a bank holds a symbol of a higher address before one of
\* a lower address.
C16_Witness ==
    /\ SymWritten /\ Len(symFile) = Len(lastOut.result)
    /\ \E i, j \in 1..Len(symFile) : i < j /\ symFile[i].addr > symFile[j].addr

\* ---------------------------------------------------------------- C17
Reverse(q) == [i \in 1..Len(q) |-> q[Len(q) + 1 - i]]
Elements(q) == {q[i] : i \in 1..Len(q)}

\* C17: as used by the sort, compareSymbols is irreflexive, asymmetric and
\* transitive, with a transitive equivalence, so that sorting the reversed
\* list of a bank's symbols yields the same output.
C17_TotalOrder ==
    SymWritten =>
        LET S == Elements(lastOut.arg.symList)
            Equiv(a, b) == ~comp(a, b) /\ ~comp(b, a)
        IN /\ \A a \in S : ~comp(a, a)
           /\ \A a, b \in S : comp(a, b) => ~comp(b, a)
           /\ \A a, b, c \in S : (comp(a, b) /\ comp(b, c)) => comp(a, c)
           /\ \A a, b, c \in S : (Equiv(a, b) /\ Equiv(b, c)) => Equiv(a, c)
           /\ stable_sort(Reverse(lastOut.arg.symList), lastOut.arg.impl)
                 = lastOut.result

\* Two symbols of different addresses were sorted: each is "less" than the
\* other for the sort.
C17_Witness ==
    /\ SymWritten
    /\ \E a, b \in Elements(lastOut.arg.symList) :
          a.addr < b.addr /\ comp(a, b) /\ comp(b, a)

\* ---------------------------------------------------------------- C18
\* The step on which a syntax error is reported.
ErrorStep == nbErrors' = nbErrors + 1

\* C18: after a syntax error the lexer is in NORMAL mode with string
\* expansion enabled and the parse goes on; input is discarded up to the
\* end of the line, where any REPT under way is stopped and parsing resumes
\* at the start of the next line.
C18_Recovery ==
    /\ [](linePhase = "recover" =>
             /\ lexerMode = LEXER_NORMAL /\ expansionEnabled
             /\ ~fatal)
    /\ [][ErrorStep => linePhase' = "recover" /\ fatal' = fatal]_vars
    /\ [][linePhase = "recover" =>
             \/ linePhase' = "recover" /\ UNCHANGED <<lexerMode, lineVars>>
             \/ /\ linePhase' = "start" /\ ~reptActive'
                /\ lexerMode' = LEXER_NORMAL /\ expansionEnabled']_vars

\* An error met while string expansion was off and a REPT was under way has
\* been recovered from, and the next line is being parsed.
C18_Witness ==
    /\ errorAt.mode # NULL /\ errorAt.expansion = FALSE /\ errorAt.rept
    /\ linePhase = "inLine" /\ ~reptActive /\ expansionEnabled

\* The same for an error in the arguments of a macro call.
C18_WitnessRaw ==
    /\ errorAt.mode = LEXER_RAW
    /\ linePhase = "start" /\ lexerMode = LEXER_NORMAL

\* The same for an error on a line delivered in a skip mode.
C18_WitnessSkip ==
    /\ errorAt.mode = LEXER_SKIP_TO_ENDC
    /\ linePhase = "start" /\ lexerMode = LEXER_NORMAL

\* ---------------------------------------------------------------- C19
\* C19: the specification align_spec produces has 0 <= alignment <= 16 and
\* 0 <= alignOfs < 2^alignment; an alignment above 16, or an offset o with
\* |o| >= 2^alignment, is an error yielding alignment 0 and offset 0, and an
\* accepted negative offset o is stored as 2^alignment + o.
C19_AlignSpec ==
    LET a == alignIn.alignment
        o == alignIn.offset
        Abs(x) == IF x < 0 THEN -x ELSE x
        bad == a > 16 \/ (alignIn.hasOffset /\ Abs(o) >= 2 ^ a)
    IN /\ alignSpec.alignment \in 0..16
       /\ alignSpec.alignOfs >= 0
       /\ alignSpec.alignOfs < 2 ^ alignSpec.alignment
       /\ a >= 0 =>
            IF bad THEN alignSpec = [alignment |-> 0, alignOfs |-> 0]
                        /\ (~fatal => diag = "error" /\ nbErrors > 0)
            ELSE /\ alignSpec.alignment = a
                 /\ alignSpec.alignOfs =
                       IF ~alignIn.hasOffset THEN 0
                       ELSE IF o < 0 THEN 2 ^ a + o ELSE o

\* A negative offset was accepted and stored from the top of the boundary.
C19_Witness ==
    /\ alignIn.hasOffset /\ alignIn.offset < 0
    /\ alignSpec.alignment = 16 /\ alignSpec.alignOfs = 1

\* An offset of exactly the alignment's size was refused.
C19_WitnessRefused ==
    /\ alignIn.alignment = 2 /\ alignIn.hasOffset /\ alignIn.offset = 4
    /\ diag = "error"
    /\ alignSpec = [alignment |-> 0, alignOfs |-> 0]

\* ---------------------------------------------------------------- C20
\* C20: a failing assertion is reported at the severity of its type: WARN
\* raises a warning, ERROR (the default, and FAIL) a counted error, both
\* letting assembly continue, and FATAL ends assembly; an ASSERT of unknown
\* value raises nothing and is recorded for the linker; an assertion of
\* known non-zero value raises nothing.
C20_Assertions ==
    assertIn.kind # "none" =>
        LET quiet == /\ diag = "none" /\ ~fatal
                     /\ nbErrors = assertIn.errorsBefore
        IN IF ~assertIn.known
           THEN /\ quiet /\ assertIn.kind = "ASSERT"
                /\ Len(assertions) = assertIn.recordedBefore + 1
                /\ assertions[Len(assertions)].message = assertIn.msg
                /\ assertions[Len(assertions)].type
                     = (CASE assertIn.tok = "WARN" -> ASSERT_WARN
                          [] assertIn.tok = "FATAL" -> ASSERT_FATAL
                          [] OTHER -> ASSERT_ERROR)
           ELSE /\ Len(assertions) = assertIn.recordedBefore
                /\ IF assertIn.val # 0 THEN quiet
                   ELSE CASE assertIn.tok = "WARN" ->
                               /\ diag = "warning" /\ ~fatal
                               /\ nbErrors = assertIn.errorsBefore
                          [] assertIn.tok = "FATAL" ->
                               /\ diag = "fatal" /\ fatal
                               /\ nbErrors = assertIn.errorsBefore
                          [] OTHER ->
                               /\ diag = "error" /\ ~fatal
                               /\ nbErrors = assertIn.errorsBefore + 1

\* ASSERT FAIL with a known zero was counted as an error and assembly goes on.
C20_Witness ==
    /\ assertIn.kind = "ASSERT" /\ assertIn.tok = "FAIL"
    /\ assertIn.known /\ assertIn.val = 0
    /\ diag = "error" /\ ~fatal /\ nbErrors = 1

\* An ASSERT of unknown value was left to the linker.
C20_WitnessLinker ==
    /\ assertIn.kind = "ASSERT" /\ ~assertIn.known /\ assertIn.tok = "WARN"
    /\ Len(assertions) = 2 /\ diag = "none"

\* STATIC_ASSERT FATAL with a zero ended assembly.
C20_WitnessFatal ==
    /\ assertIn.kind = "STATIC_ASSERT" /\ assertIn.tok = "FATAL"
    /\ assertIn.val = 0 /\ fatal

\* ---------------------------------------------------------------- C21
\* The parser positions at which an identifier (or identifier list) of DEF,
\* REDEF, FOR, MACRO, PURGE or DEF( ) is being read.
ReadingIdentifier ==
    linePhase \in {"awaitId", "awaitPurgeId", "purgeArgs", "awaitDefId",
                   "defClose"}

\* C21: string expansion is disabled only while such an identifier is being
\* read, and at the start of every line, after any sequence of directives
\* and syntax errors, it is enabled.
C21_ExpansionAtLineStart ==
    /\ ~expansionEnabled => ReadingIdentifier
    /\ linePhase \in {"start", "accepted", "recover"} => expansionEnabled

\* Two syntax errors, the latest met while an identifier was being read with
\* expansion off, were recovered from: the next line starts with expansion on.
C21_Witness ==
    /\ linePhase = "start" /\ expansionEnabled
    /\ errorAt.mode = LEXER_NORMAL /\ ~errorAt.expansion /\ nbErrors = 2

\* Expansion is off in the middle of a PURGE list.
C21_WitnessOff ==
    linePhase = "purgeArgs" /\ ~expansionEnabled

\* ---------------------------------------------------------------- C22
\* The latest directive was an RB, RW or RL with a size that uconst accepts.
Allocated == rsLast.op \in {"RB", "RW", "RL"} /\ rsLast.n >= 0

\* C22: DEF x RB/RW/RL n defines x as the value of _RS before the directive
\* and increases _RS by n, 2n or 4n modulo 2^32; RSRESET sets _RS to 0 and
\* RSSET v to v; so every constant defined equals the value last set plus
\* the sizes allocated between that and its definition, modulo 2^32.
C22_RsAllocation ==
    /\ Allocated =>
          /\ rsLast.fresh => rsSymbols[rsLast.name] = rsLast.before
          /\ \E d \in 0..1 :
                rs + d * UINT32_MOD - rsLast.before
                  = ((CASE rsLast.op = "RB" -> 1 [] rsLast.op = "RW" -> 2
                        [] rsLast.op = "RL" -> 4) * rsLast.n) % UINT32_MOD
    /\ rsLast.op = "RSRESET" => rs = 0
    /\ (rsLast.op = "RSSET" /\ rsLast.n >= 0) => rs = rsLast.n
    /\ \A name \in RsNames :
          rsSymbols[name] # Undefined => rsSymbols[name] = rsExpected[name]
    /\ \E d \in 0..1 : rs + d * UINT32_MOD - rsSet = rsAlloc

\* The same without the sizes whose product overflows int32_t.
C22_WithoutOverflow ==
    rsStatus = "ok" => C22_RsAllocation

\* RW of a size whose double does not fit int32_t.
C22_Witness ==
    /\ rsLast.op = "RW" /\ rsLast.overflow /\ rsLast.fresh

\* _RS wrapped past 2^32 by allocations that each fit.
C22_WitnessWrap ==
    /\ Allocated /\ ~rsLast.overflow /\ rs < rsLast.before
    /\ rsSymbols["x"] # Undefined /\ rsSymbols["y"] # Undefined

\* ---------------------------------------------------------------- C23
\* The number of characters of a well-formed string.
RECURSIVE CharCount(_)
CharCount(q) ==
    IF q = <<>> THEN 0
    ELSE IF Head(q) = "L" THEN 1 + CharCount(Tail(Tail(q)))
    ELSE 1 + CharCount(Tail(q))

RECURSIVE WellFormed(_)
WellFormed(q) ==
    \/ q = <<>>
    \/ Head(q) = "a" /\ WellFormed(Tail(q))
    \/ Head(q) = "L" /\ Len(q) >= 2 /\ q[2] = "c" /\ WellFormed(Tail(Tail(q)))

\* STRSUB(s, pos, len) was evaluated with all three operands, on a
\* well-formed string and a position of 1 or more.
StrsubDone ==
    /\ strsubOut.done /\ strsubIn.hasLen
    /\ WellFormed(strsubIn.src) /\ strsubIn.pos >= 1

\* C23: STRSUB(s, pos, len) warns if len > 0 and pos > length of s + 1, and
\* is otherwise silent.
C23_StrsubWarning ==
    StrsubDone =>
        (strsubOut.warnings # {}
           <=> (strsubIn.len > 0
                  /\ strsubIn.pos > CharCount(strsubIn.src) + 1))

\* What the code warns about: a position past length + 1 whatever the
\* length, and a length greater than the characters left from the position.
C23_WarningsOfCode ==
    StrsubDone =>
        LET L == CharCount(strsubIn.src)
        IN /\ "PositionPastEnd" \in strsubOut.warnings
                <=> strsubIn.pos > L + 1
           /\ "LengthTooBig" \in strsubOut.warnings
                <=> (strsubIn.len > 0 /\ strsubIn.pos + strsubIn.len > L + 1)
           /\ "PositionStartsAt1" \notin strsubOut.warnings
           /\ strsubOut.errors = 0

\* A zero-length slice two positions past the end warned.
C23_Witness ==
    /\ StrsubDone /\ strsubIn.len = 0
    /\ strsubIn.pos = CharCount(strsubIn.src) + 2
    /\ strsubOut.warnings = {"PositionPastEnd"}

\* A slice from position 1 longer than the string warned.
C23_WitnessLength ==
    /\ StrsubDone /\ strsubIn.pos = 1 /\ strsubIn.src = <<"a", "L", "c">>
    /\ strsubIn.len = 3 /\ strsubOut.warnings = {"LengthTooBig"}

\* ---------------------------------------------------------------- C24
\* C24: a dump prints the saved frames from outermost to innermost, in the
\* order they were pushed, each as name(line) followed by " -> ", and ends
\* with the current file name and line; a saved frame's line is the line
\* that was current when it was pushed, and its name the file it was
\* pushed from.
C24_Dump ==
    dumpOut.status # "none" =>
        /\ dumpOut.status = "printed"
        /\ Len(dumpOut.frames) = Len(pFileStack)
        /\ \A i \in 1..Len(dumpOut.frames) :
              /\ dumpOut.frames[i].line = pFileStack[i].nLine
              /\ dumpOut.frames[i].name = FileNameAt(i - 1)
              /\ dumpOut.frames[i].sep = " -> "
        /\ dumpOut.current
             = <<[name |-> lexer_GetFileName, line |-> lineNo]>>

\* The same for the lines, the order and the current position alone, when
\* the dump gets to its end.
C24_OrderAndLines ==
    dumpOut.status = "printed" =>
        /\ Len(dumpOut.frames) = Len(pFileStack)
        /\ \A i \in 1..Len(dumpOut.frames) :
              /\ dumpOut.frames[i].line = pFileStack[i].nLine
              /\ dumpOut.frames[i].sep = " -> "
        /\ dumpOut.current
             = <<[name |-> lexer_GetFileName, line |-> lineNo]>>

\* Two frames pushed at different lines were dumped.
C24_Witness ==
    /\ dumpOut.status = "printed" /\ Len(dumpOut.frames) = 2
    /\ dumpOut.frames[1].line # dumpOut.frames[2].line

\* A dump printed a name that is not the frame's file.
C24_WitnessName ==
    /\ dumpOut.status = "printed" /\ Len(dumpOut.frames) >= 1
    /\ dumpOut.frames[1].name = Indeterminate

\* ------------------------------------------------- link/output: printSymName
\* isLegalForSymName(c): of the byte classes, only the ASCII one
isLegalForSymName(c) == c = "a"

\* *ptr: the byte at ptr, the terminating NUL one past the end
NUL == "0"
ByteAt(str, p) == IF p > Len(str) THEN NUL ELSE str[p]

\* while ((*ptr & 0xC0) == 0x80) ++ptr;
RECURSIVE SkipContinuation(_, _)
SkipContinuation(str, p) ==
    IF ByteAt(str, p) = "c" THEN SkipContinuation(str, p + 1) ELSE p

\* What printSymName writes: a legal byte as it is, or one escape.
Literal(c) == [esc |-> FALSE, what |-> c]
Escape(lead) == [esc |-> TRUE, what |-> lead]
U_FFFD == [esc |-> TRUE, what |-> "FFFD"]

\* The do-while of printSymName from byte p in decoder state `state`: where
\* ptr stands after it and the code point it leaves.
RECURSIVE DecodeLoop(_, _, _, _)
DecodeLoop(str, first, p, state) ==
    LET d == decode(state, ByteAt(str, p))
    IN IF d = 1
       THEN [ptr |-> SkipContinuation(str, p), codepoint |-> U_FFFD]
       ELSE IF d # 0
       THEN DecodeLoop(str, first, p + 1, d)
       ELSE [ptr |-> p + 1, codepoint |-> Escape(ByteAt(str, first))]

\* One iteration of printSymName's for loop.  What is written is followed
\* up to MaxEscapes items.
printSymName_Iteration ==
    /\ ByteAt(symName, namePtr) # NUL
    /\ Len(printed) < MaxEscapes
    /\ IF isLegalForSymName(symName[namePtr])
       THEN /\ printed' = Append(printed, Literal(symName[namePtr]))
            /\ namePtr' = namePtr + 1
       ELSE LET r == DecodeLoop(symName, namePtr, namePtr, 0)
            IN /\ printed' = Append(printed, r.codepoint)
               /\ namePtr' = r.ptr
    /\ UNCHANGED symName
    /\ UNCHANGED <<fstkVars, ifVars, outVars, romVars, symVars, lineVars,
                   dirVars, rsVars, strVars, dumpVars>>

\* Symbol names: the first byte can start a name (canStartSymName), the
\* others are any bytes.
SymNameInputs ==
    {n \in UNION {[1..k -> Bytes] : k \in 1..MaxNameLen} :
        isLegalForSymName(n[1])}

PrintInit ==
    /\ fstk_AtRest /\ if_Init /\ out_Init /\ rom_AtRest /\ sym_AtRest
    /\ line_Init /\ dir_Init /\ rs_Init /\ str_Init /\ dump_Init
    /\ symName \in SymNameInputs /\ namePtr = 1 /\ printed = <<>>

PrintNext == printSymName_Iteration

SpecPrint == PrintInit /\ [][PrintNext]_vars /\ WF_vars(PrintNext)

\* ---------------------------------------------------------------- C25
\* The latest call was the popcontext that removed a frame.
Popped ==
    /\ lastCall.op = "yywrap" /\ ~lastCall.iterates /\ lastCall.closed # <<>>
    /\ ~fatal

\* C25: after the popcontext that removes a frame, the stack depth, the
\* context status, the unique id and every value pushcontext saved in the
\* frame (a suspended REPT's block, size, remaining count and body lines; a
\* suspended macro's arguments and symbol) are what they were immediately
\* before the push.
C25_RoundTrip ==
    Popped =>
        LET b == lastCall.closed[1].before
        IN /\ nFileStackDepth = b.depth
           /\ nCurrentStatus = b.status
           /\ uniqueID = b.uniqueID
           /\ b.status = STAT_isREPTBlock =>
                 /\ <<pCurrentREPTBlock, nCurrentREPTBlockSize,
                      nCurrentREPTBlockCount, nCurrentREPTBodyFirstLine,
                      nCurrentREPTBodyLastLine>> = b.rept
                 /\ macroArgs = b.macroArgs
           /\ b.status = STAT_isMacro =>
                 /\ macroArgs = b.macroArgs
                 /\ pCurrentMacro = b.pMacro

\* A REPT that was suspended in its first iteration by a macro call, itself
\* made from a macro, is current again.
C25_Witness ==
    /\ Popped /\ lastCall.closed[1].kind = "macro"
    /\ lastCall.closed[1].before.status = STAT_isREPTBlock
    /\ lastCall.closed[1].before.depth = 1
    /\ nCurrentREPTBlockCount = 2

\* A macro suspended by a REPT is current again.
C25_WitnessMacro ==
    /\ Popped /\ lastCall.closed[1].kind = "rept"
    /\ lastCall.closed[1].before.status = STAT_isMacro

\* ---------------------------------------------------------------- C26
\* The latest call was the popcontext at the end of a macro body.
MacroPopped == Popped /\ lastCall.closed[1].kind = "macro"

\* The arguments and the symbol are those before the invocation, and the
\* arguments the invocation received are the ones released.
MacroRestored ==
    /\ macroArgs = lastCall.closed[1].args
    /\ pCurrentMacro = lastCall.closed[1].macro
    /\ lastCall.freed = 1

\* C26: when the frame of a macro invocation is popped at the end of the
\* macro body, the current macro arguments and macro symbol are those in
\* effect immediately before the invocation, whatever context made the call,
\* and the arguments of the finished invocation are released.
C26_MacroPop == MacroPopped => MacroRestored

\* C26, for an invocation made from a macro: arguments and symbol are
\* restored and the invocation's arguments are released.
C26_CalledFromMacro ==
    (MacroPopped /\ lastCall.closed[1].before.status = STAT_isMacro)
        => MacroRestored

\* C26, for an invocation made from a REPT block: the arguments are restored
\* and the invocation's arguments released (the macro symbol is not part of
\* a REPT frame).
C26_CalledFromRept ==
    (MacroPopped /\ lastCall.closed[1].before.status = STAT_isREPTBlock)
        => /\ macroArgs = lastCall.closed[1].args
           /\ lastCall.freed = 1

\* C26, for an invocation made from an include file: nothing is restored and
\* nothing is released.
C26_CalledFromInclude ==
    (MacroPopped /\ lastCall.closed[1].before.status = STAT_isInclude)
        => /\ macroArgs = NewArgs(lastCall.closed[1].ids[1])
           /\ macroArgs # lastCall.closed[1].args
           /\ lastCall.freed = 0

\* popcontext releases arguments only when it ends a macro invocation, and
\* the current arguments of a macro context are those its invocation
\* received: no arguments are released twice.
C26_ReleasedAtMostOnce ==
    /\ (lastCall.op = "yywrap" /\ lastCall.freed # 0) =>
           lastCall.closed # <<>> /\ lastCall.closed[1].kind = "macro"
    /\ (nCurrentStatus = STAT_isMacro /\ ctxHist # <<>> /\ ~fatal) =>
           /\ Last(ctxHist).kind = "macro"
           /\ macroArgs = NewArgs(Last(ctxHist).ids[1])

\* A macro called from the top-level file has ended.
C26_Witness ==
    /\ MacroPopped /\ lastCall.closed[1].before.status = STAT_isInclude
    /\ nFileStackDepth = 0

\* A macro called from a macro has ended.
C26_WitnessNested ==
    /\ MacroPopped /\ lastCall.closed[1].before.status = STAT_isMacro
    /\ MacroRestored

\* ---------------------------------------------------------------- C27
\* C27: in an IF / ELIF... / ELSE / ENDC chain at one depth at most one
\* branch body is run: an ELIF or ELSE handed to the parser once a branch of
\* its level has run switches the lexer to skipping until ENDC and runs no
\* body, whatever the ELIF condition; an ELIF or ELSE at IF depth 0 is a
\* fatal error.
C27_OneBranch ==
    /\ [](\A i \in 1..Len(ifHist) : ifHist[i].bodies <= 1)
    /\ [][(Parsed("elif") \/ Parsed("else")) =>
             IF ifStack = <<>>
             THEN fatal' /\ ifStack' = <<>>
             ELSE (Last(ifHist).bodies >= 1 /\ ~Last(ifHist).elseSeen) =>
                     /\ ~fatal'
                     /\ lexerMode' = LEXER_SKIP_TO_ENDC
                     /\ skipNest' = 0
                     /\ Len(ifHist') = Len(ifHist)
                     /\ Last(ifHist').bodies = Last(ifHist).bodies]_vars

\* The ELSE of a nested chain whose ELIF branch ran: skipping to ENDC.
C27_Witness ==
    /\ ~fatal /\ lastTok.tok = "else" /\ lastTok.how = "parsed"
    /\ Len(ifStack) >= 2 /\ lexerMode = LEXER_SKIP_TO_ENDC
    /\ Last(ifHist).bodies = 1 /\ Last(ifHist).elseSeen

\* ELIF outside every IF: fatal.
C27_WitnessDepth0 ==
    /\ fatal /\ lastTok.tok = "elif" /\ lastTok.how = "parsed"
    /\ ifStack = <<>>

\* ---------------------------------------------------------------- C28
\* printSymName has returned.
Returned == ByteAt(symName, namePtr) = NUL

\* C28: printSymName terminates on every name: each iteration of its outer
\* loop consumes at least one byte, and each invalid sequence is written as
\* exactly one U+FFFD escape.
C28_PrintSymName ==
    /\ <>Returned
    /\ [][namePtr' > namePtr /\ Len(printed') = Len(printed) + 1]_vars

\* A byte no UTF-8 sequence holds is never consumed.
HasInvalidByte == \E i \in 1..Len(symName) : symName[i] = "x"

\* C28, for names without a byte no sequence holds (stray continuation
\* bytes, a lead byte followed by a non-continuation byte and a truncated
\* sequence included): the loop ends, each iteration consumes at least one
\* byte and writes one item.
C28_WithoutInvalidByte ==
    /\ ~HasInvalidByte => <>Returned
    /\ [][~HasInvalidByte =>
             namePtr' > namePtr /\ Len(printed') = Len(printed) + 1]_vars

\* C28, at a byte no sequence holds: the iteration writes a U+FFFD escape and
\* leaves ptr where it was.
C28_StuckAtInvalidByte ==
    [][ByteAt(symName, namePtr) = "x" =>
          namePtr' = namePtr /\ printed' = Append(printed, U_FFFD)]_vars

\* The same invalid byte was written as U+FFFD twice.
C28_Witness ==
    /\ ByteAt(symName, namePtr) = "x" /\ Len(printed) >= 3
    /\ printed[Len(printed)] = U_FFFD /\ printed[Len(printed) - 1] = U_FFFD

\* A lead byte followed by a non-continuation byte: one U+FFFD, one byte
\* consumed.
C28_WitnessLead ==
    /\ symName = <<"a", "L", "a">> /\ namePtr = 3 /\ printed = <<Literal("a"), U_FFFD>>

\* ---------------------------------------------------------------- C29
\* The list `after` is the list `before` with x put in at one place.
OneMore(before, after, x) ==
    /\ Len(after) = Len(before) + 1
    /\ \E i \in 1..Len(after) :
          /\ after[i] = x
          /\ SubSeq(after, 1, i - 1) \o SubSeq(after, i + 1, Len(after)) = before

\* A list is ordered by non-decreasing org.
OrderedByOrg(list) ==
    \A i \in 1..Len(list), j \in 1..Len(list) :
        i < j => list[i].org <= list[j].org

\* Every section a list holds belongs there, the lists are ordered, and the
\* last bank of a type holds a section.
ListsWellFormed ==
    \A t \in SectionTypes :
        /\ \A b \in 1..Len(sections[t]) :
              LET bank == sections[t][b]
              IN /\ OrderedByOrg(bank.sections)
                 /\ OrderedByOrg(bank.zeroLenSections)
                 /\ \A i \in 1..Len(bank.sections) :
                       /\ bank.sections[i].type = t
                       /\ targetBankOf(bank.sections[i]) + 1 = b
                       /\ bank.sections[i].size # 0
                 /\ \A i \in 1..Len(bank.zeroLenSections) :
                       /\ bank.zeroLenSections[i].type = t
                       /\ targetBankOf(bank.zeroLenSections[i]) + 1 = b
                       /\ bank.zeroLenSections[i].size = 0
        /\ sections[t] # <<>> =>
              Last(sections[t]).sections \o Last(sections[t]).zeroLenSections
                  # <<>>

\* The bank b of a type before a call, an empty one when it did not exist.
BankBefore(t, b) == IF b <= Len(sections[t]) THEN sections[t][b] ELSE EmptyBank

\* An out_AddSection that returns puts the section once more into the list
\* of its type, bank index and size class, and changes no other list.
AddedOnce ==
    (lastOut'.op = "AddSection" /\ outStatus' = "ok") =>
        LET s == lastOut'.arg
            t == s.type
            b == targetBankOf(s) + 1
        IN /\ \A u \in SectionTypes \ {t} : sections'[u] = sections[u]
           /\ Len(sections'[t]) =
                  IF b > Len(sections[t]) THEN b ELSE Len(sections[t])
           /\ \A c \in 1..Len(sections'[t]) :
                  c # b => sections'[t][c] = BankBefore(t, c)
           /\ IF s.size # 0
              THEN /\ OneMore(BankBefore(t, b).sections,
                              sections'[t][b].sections, s)
                   /\ sections'[t][b].zeroLenSections =
                          BankBefore(t, b).zeroLenSections
              ELSE /\ OneMore(BankBefore(t, b).zeroLenSections,
                              sections'[t][b].zeroLenSections, s)
                   /\ sections'[t][b].sections = BankBefore(t, b).sections

\* C29: after any sequence of out_AddSection calls every added section is
\* held exactly once, in the list of its type and bank index (bank -
\* firstBank), non-zero-size sections in the bank's sections list and
\* zero-size sections in its zeroLenSections list; each list is ordered by
\* non-decreasing org, and the banks of a type are a dense range from index 0
\* to the highest bank index added.
C29_SectionLists == []ListsWellFormed /\ [][AddedOnce]_vars

\* ROMX bank 2 was added before bank 1 existed, and a zero-size section
\* stands beside a section with data at a lower org placed after one at a
\* higher org.
C29_Witness ==
    /\ Len(sections["ROMX"]) = 2 /\ sections["ROMX"][1].sections = <<>>
    /\ Len(sections["ROMX"][2].sections) = 1
    /\ Len(sections["ROMX"][2].zeroLenSections) = 1

\* A section was inserted before one of a higher org added earlier.
C29_WitnessOrder ==
    /\ lastOut.op = "AddSection" /\ outStatus = "ok"
    /\ Len(sections["ROM0"]) = 1 /\ Len(sections["ROM0"][1].sections) = 2
    /\ lastOut.arg = sections["ROM0"][1].sections[1]
    /\ sections["ROM0"][1].sections[1].org < sections["ROM0"][1].sections[2].org

\* ---------------------------------------------------------------- C30
\* The step just taken was an INCLUDE of a file that was not found.
MissingInclude == lastCall'.op = "RunInclude" /\ ~lastCall'.found
\* The step just taken was a call of an undefined name or of a symbol that
\* is not a MACRO.
BadMacroCall ==
    lastCall'.op = "RunMacro" /\ lastCall'.sym \in {"undefined", "notMacro"}

\* C30: an INCLUDE of a file that cannot be found and a macro call whose name
\* is undefined or is not a MACRO report an error (the include, with
\* missing-include generation on, sets the failed-on-missing-include flag
\* instead) and push no frame: the stack, its depth, the context status, the
\* current macro arguments and the unique-id counter are unchanged.
C30_NoFrameOnFailure ==
    [][(MissingInclude \/ BadMacroCall) =>
          /\ pFileStack' = pFileStack
          /\ nFileStackDepth' = nFileStackDepth
          /\ nCurrentStatus' = nCurrentStatus
          /\ macroArgs' = macroArgs
          /\ pCurrentMacro' = pCurrentMacro
          /\ nMacroCount' = nMacroCount
          /\ uniqueID' = uniqueID
          /\ ~fatal'
          /\ IF MissingInclude /\ oGeneratedMissingIncludes
             THEN oFailedOnMissingInclude' /\ diag' # "error"
             ELSE /\ diag' = "error"
                  /\ oFailedOnMissingInclude' = oFailedOnMissingInclude]_vars

\* Inside a macro, a call of a symbol that is not a MACRO was refused.
C30_Witness ==
    /\ lastCall.op = "RunMacro" /\ lastCall.sym = "notMacro"
    /\ diag = "error" /\ nCurrentStatus = STAT_isMacro /\ nFileStackDepth = 1

\* With missing-include generation on, an INCLUDE inside a REPT block found
\* no file.
C30_WitnessFlag ==
    /\ lastCall.op = "RunInclude" /\ ~lastCall.found
    /\ oGeneratedMissingIncludes /\ oFailedOnMissingInclude
    /\ nCurrentStatus = STAT_isREPTBlock

\* An INCLUDE found no file and the error was reported.
C30_WitnessError ==
    /\ lastCall.op = "RunInclude" /\ ~lastCall.found
    /\ ~oGeneratedMissingIncludes /\ diag = "error" /\ nFileStackDepth = 1

====
